---------------------------- MODULE Spec2Model ----------------------------
(***************************************************************************)
(* Habit scheduling and streak engine of neri (app/database/habitDb.ts).   *)
(*                                                                         *)
(* The persisted state is the `habits` table (the catalog) and the         *)
(* `user_habits` table (one row per (habit_id, date), UNIQUE on the pair). *)
(* A dateKey "YYYY-MM-DD" is represented by its day ordinal: the keys are  *)
(* zero padded, so the string order SQLite uses for `date < ?` and         *)
(* ORDER BY date is the calendar order of the ordinals.  Rows of one date  *)
(* are kept in rowid order (ORDER BY id), which is their insertion order.  *)
(*                                                                         *)
(* Every exported async function is a call frame that executes one store   *)
(* statement per step (each `await database.xxxAsync`).  Spec runs a call  *)
(* to completion in one action (a caller that awaits it); SpecConc         *)
(* interleaves the statements of calls that were not awaited; SpecFail     *)
(* lets a statement of a call throw; SpecStreak grows a long history;      *)
(* SpecStale saves task lists held in memory; SpecOpen opens the database; *)
(* SpecDays reads unset days; SpecView and SpecCustom run the day view.    *)
(***************************************************************************)
EXTENDS Integers, Sequences, FiniteSets, Bags, TLC

VARIABLES
    habits,       \* catalog: set of habit ids present in table `habits`
    user_habits,  \* [dateKey -> sequence of rows [habit_id, completed]]
    txn,          \* the connection's open transaction (BEGIN .. COMMIT)
    calls,        \* SpecConc: call frames in flight, by slot
    ret,          \* the last call that returned: its arguments and outcome
    pre,          \* the store as it was when that call was made
    conn,         \* getDatabase: the module's `db` and `dbInitPromise`
    clients,      \* getDatabase: what each caller of it is doing or got
    view,         \* SpecView: the day view (HomeScreen), its timers and loads
    storage       \* SpecMigrate: AsyncStorage (legacy selections, migration flag)

vars == <<habits, user_habits, txn, calls, ret, pre, conn, clients, view,
          storage>>

\* the state outside the store and its calls
app == <<conn, clients, view, storage>>

----------------------------------------------------------------------------
(* Bounds of the model *)

MaxDate == 2
MaxLen == 2
MaxFailAt == 3
MaxDay == 122
MaxOpens == 2
MaxLoads == 2
MaxEdits == 2
GapWindow == 5

(* Program constants *)

StreakRowLimit == 100
FutureDateLimit == 120
CustomCategory == 999
HoursPerDay == 24

BuiltinHabits == {"h1"}
CustomHabits == {"custom_1"}
Habits == BuiltinHabits \cup CustomHabits

DateKeys == 1..MaxDate
StreakDays == 1..MaxDay
TzOffsets == {-8, 9}

RECURSIVE SeqsUpTo(_, _)
SeqsUpTo(S, n) ==
    IF n = 0 THEN {<<>>}
    ELSE LET shorter == SeqsUpTo(S, n - 1)
         IN  shorter \cup {Append(q, x) : q \in shorter, x \in S}

TaskLists == SeqsUpTo(Habits, MaxLen)

Range(q) == {q[k] : k \in 1..Len(q)}

Min(a, b) == IF a < b THEN a ELSE b

----------------------------------------------------------------------------
(* The catalog *)

CategoryOf(h) == IF h \in CustomHabits THEN CustomCategory ELSE 1

getCategoriesForTasks(cat, taskIds) ==
    {CategoryOf(h) : h \in Range(taskIds) \cap cat}

----------------------------------------------------------------------------
(* Store statements on user_habits *)

Row(h, c) == [habit_id |-> h, completed |-> c]

RowHabits(rows) == [k \in 1..Len(rows) |-> rows[k].habit_id]

HasRow(tbl, h, d) == \E k \in 1..Len(tbl[d]) : tbl[d][k].habit_id = h

WithoutHabit(rows, h) ==
    LET Keep(r) == r.habit_id # h IN SelectSeq(rows, Keep)

EmptyTable(dom) == [d \in dom |-> <<>>]

\* DELETE FROM user_habits WHERE date = ?
DeleteFirstRowOfDate(tbl, d) ==
    [tbl EXCEPT ![d] = IF @ = <<>> THEN @ ELSE Tail(@)]

DeleteByDate(tbl, d) == [tbl EXCEPT ![d] = <<>>]

\* DELETE FROM user_habits WHERE habit_id = ?
DeleteByHabit(tbl, h) == [d \in DOMAIN tbl |-> WithoutHabit(tbl[d], h)]

\* DELETE FROM user_habits WHERE habit_id = ? AND date = ?
DeleteByHabitDate(tbl, h, d) == [tbl EXCEPT ![d] = WithoutHabit(@, h)]

\* DELETE FROM user_habits
DeleteNoRows(tbl) == tbl

DeleteAllRows(tbl) == EmptyTable(DOMAIN tbl)

InsertAppendOnly(tbl, h, d, c) == [tbl EXCEPT ![d] = Append(@, Row(h, c))]

\* INSERT OR REPLACE INTO user_habits (habit_id, date, completed): a row
\* that conflicts on UNIQUE(habit_id, date) is deleted, the new row gets a
\* fresh rowid and so comes last in ORDER BY id.
InsertOrReplace(tbl, h, d, c) ==
    [tbl EXCEPT ![d] = Append(WithoutHabit(@, h), Row(h, c))]

\* INSERT INTO user_habits: rejected when the pair exists (UNIQUE).
InsertRejected(tbl, h, d) == HasRow(tbl, h, d)

InsertRow(tbl, h, d, c) == [tbl EXCEPT ![d] = Append(@, Row(h, c))]

\* UPDATE user_habits SET completed = ? WHERE habit_id = ? AND date = ?
UpdateCompletedOnDate(tbl, h, d, c) ==
    [tbl EXCEPT ![d] = [k \in 1..Len(@) |-> Row(@[k].habit_id, c)]]

UpdateCompleted(tbl, h, d, c) ==
    [tbl EXCEPT ![d] =
        [k \in 1..Len(@) |-> IF @[k].habit_id = h THEN Row(h, c) ELSE @[k]]]

RECURSIVE AllRows(_, _, _)
AllRows(tbl, lo, hi) ==
    IF lo > hi THEN <<>>
    ELSE IF lo = hi THEN tbl[lo]
    ELSE LET mid == (lo + hi) \div 2
         IN  AllRows(tbl, lo, mid) \o AllRows(tbl, mid + 1, hi)

SelectByDateAnyDate(tbl, d) == AllRows(tbl, 1, Cardinality(DOMAIN tbl))

\* SELECT habit_id, completed FROM user_habits WHERE date = ? ORDER BY id
SelectByDate(tbl, d) == IF d \in DOMAIN tbl THEN tbl[d] ELSE <<>>

Limit(q, n) == SubSeq(q, 1, Min(n, Len(q)))

\* the date keys lo..hi that have a row, ascending (ORDER BY date); the
\* range is halved so that the evaluation stays shallow on long histories
EveryDate(tbl, lo, hi) == [k \in 1..(hi - lo + 1) |-> lo + k - 1]

RECURSIVE Ascending(_, _, _)
Ascending(tbl, lo, hi) ==
    IF lo > hi THEN <<>>
    ELSE IF lo = hi THEN (IF tbl[lo] # <<>> THEN <<lo>> ELSE <<>>)
    ELSE LET mid == (lo + hi) \div 2
         IN  Ascending(tbl, lo, mid) \o Ascending(tbl, mid + 1, hi)

\* the date keys of a table are the ordinals 1..n
LastKey(tbl) == Cardinality(DOMAIN tbl)

\* SELECT DISTINCT date FROM user_habits WHERE date > ? ORDER BY date LIMIT 120
SelectFutureDates(tbl, d) ==
    Limit(Ascending(tbl, d + 1, LastKey(tbl)), FutureDateLimit)

NoDate == 0

\* the greatest date key in lo..hi that has a row (ORDER BY date DESC
\* LIMIT 1), NoDate when there is none
RECURSIVE Latest(_, _, _)
Latest(tbl, lo, hi) ==
    IF lo > hi THEN NoDate
    ELSE IF lo = hi THEN (IF tbl[lo] # <<>> THEN lo ELSE NoDate)
    ELSE LET mid == (lo + hi) \div 2
             upper == Latest(tbl, mid + 1, hi)
         IN  IF upper # NoDate THEN upper ELSE Latest(tbl, lo, mid)

SelectLatestUpTo(tbl, d) == Latest(tbl, 1, Min(d, LastKey(tbl)))

\* SELECT date AS latestDate FROM user_habits WHERE date < ?
\*   ORDER BY date DESC LIMIT 1
SelectLatestBefore(tbl, d) == Latest(tbl, 1, Min(d - 1, LastKey(tbl)))

IsCompletedOn(tbl, h, d) ==
    \E k \in 1..Len(tbl[d]) : tbl[d][k] = Row(h, TRUE)

\* the date keys lo..hi on which h has a completed row, descending
RECURSIVE CompletedDescending(_, _, _, _)
CompletedDescending(tbl, h, lo, hi) ==
    IF lo > hi THEN <<>>
    ELSE IF lo = hi THEN (IF IsCompletedOn(tbl, h, lo) THEN <<lo>> ELSE <<>>)
    ELSE LET mid == (lo + hi) \div 2
         IN  CompletedDescending(tbl, h, mid + 1, hi)
                 \o CompletedDescending(tbl, h, lo, mid)

SelectCompletedDatesAnyDate(tbl, h, upTo, limit) ==
    Limit(CompletedDescending(tbl, h, 1, LastKey(tbl)), limit)

\* SELECT date FROM user_habits WHERE habit_id = ? AND completed = 1
\*   AND date <= ? ORDER BY date DESC [LIMIT n]
SelectCompletedDates(tbl, h, upTo, limit) ==
    Limit(CompletedDescending(tbl, h, 1, Min(upTo, LastKey(tbl))), limit)

----------------------------------------------------------------------------
(* Dates as the streak code handles them.  `new Date("YYYY-MM-DD")` is    *)
(* midnight UTC of that day; setHours(0,0,0,0) moves the instant to local  *)
(* midnight of the local day it falls on.  Instants are hours since the    *)
(* epoch, tz is the device's offset from UTC in hours.                     *)

ParseDate(dateKey) == dateKey * HoursPerDay

FloorDiv(a, b) == IF a >= 0 THEN a \div b ELSE -((b - 1 - a) \div b)

LocalDay(instant, tz) == FloorDiv(instant + tz, HoursPerDay)

SetHoursZero(instant, tz) == LocalDay(instant, tz) * HoursPerDay - tz

\* expectedDate.setDate(checkDate.getDate() - n): n local days earlier
SetDateBack(instant, n) == instant - n * HoursPerDay

RowMatchesFixedDate(rows, i, streak, checkDate, tz) ==
    SetHoursZero(ParseDate(rows[i]), tz) = checkDate

\* one iteration of the loop "Count consecutive days backwards from target
\* date" with the streak counted so far: does rows[i] fall on expectedDate?
RowMatches(rows, i, streak, checkDate, tz) ==
    SetHoursZero(ParseDate(rows[i]), tz) = SetDateBack(checkDate, streak)

\* The loop over rows[lo..hi], entered with streak = lo - 1 (every earlier
\* row matched, one increment each): how many iterations increment the
\* streak before the first `break`.  The range is halved so that the
\* evaluation stays shallow on long histories.
RECURSIVE CountConsecutive(_, _, _, _, _)
CountConsecutive(rows, lo, hi, checkDate, tz) ==
    IF lo > hi THEN 0
    ELSE IF lo = hi
         THEN (IF RowMatches(rows, lo, lo - 1, checkDate, tz) THEN 1 ELSE 0)
    ELSE LET mid == (lo + hi) \div 2
             first == CountConsecutive(rows, lo, mid, checkDate, tz)
         IN  IF first = mid - lo + 1
             THEN first + CountConsecutive(rows, mid + 1, hi, checkDate, tz)
             ELSE first

StreakOfRows(rows, targetDate, tz) ==
    CountConsecutive(rows, 1, Len(rows),
                     SetHoursZero(ParseDate(targetDate), tz), tz)

\* StreakScreen: startOfDay(date) and addDays(date, amount)
startOfDay(instant, tz) == SetHoursZero(instant, tz)

addDays(instant, amount, tz) == startOfDay(SetDateBack(instant, -amount), tz)

\* Array.from(new Set(dateKeys)).map(...).sort((a, b) => b - a) over the
\* keys lo..hi: each key once, the latest first
RECURSIVE OrderedDays(_, _, _, _)
OrderedDays(keys, lo, hi, tz) ==
    IF lo > hi THEN <<>>
    ELSE IF lo = hi
         THEN (IF lo \in keys THEN <<startOfDay(ParseDate(lo), tz)>> ELSE <<>>)
    ELSE LET mid == (lo + hi) \div 2
         IN  OrderedDays(keys, mid + 1, hi, tz) \o OrderedDays(keys, lo, mid, tz)

\* one iteration of `for (const date of ordered)`: the first date starts
\* the streak, a later one goes on with it when it is the expected day
Follows(ordered, i, tz) ==
    i = 1 \/ ordered[i] = addDays(ordered[i - 1], -1, tz)

\* how many of ordered[lo..hi] are counted before the first `break`
RECURSIVE CountRun(_, _, _, _)
CountRun(ordered, lo, hi, tz) ==
    IF lo > hi THEN 0
    ELSE IF lo = hi THEN (IF Follows(ordered, lo, tz) THEN 1 ELSE 0)
    ELSE LET mid == (lo + hi) \div 2
             first == CountRun(ordered, lo, mid, tz)
         IN  IF first = mid - lo + 1
             THEN first + CountRun(ordered, mid + 1, hi, tz)
             ELSE first

calculateCurrentStreak(dateKeys, tz) ==
    IF dateKeys = <<>> THEN 0
    ELSE LET keys == Range(dateKeys)
             ordered == OrderedDays(keys, 1, MaxDay, tz)
         IN  CountRun(ordered, 1, Len(ordered), tz)

----------------------------------------------------------------------------
(* Call frames *)

NoValue ==
    [tasks |-> <<>>, completed |-> <<>>, categories |-> {}, streak |-> 0,
     streaks |-> <<>>, all |-> <<>>]

NoTxn == [active |-> FALSE, habits |-> {}, user_habits |-> <<>>]

Store(h, u, t) == [habits |-> h, user_habits |-> u, txn |-> t]

Frame(op, pc, date, habit, tasks, completed, propagate, tz) ==
    [op |-> op, pc |-> pc, date |-> date, habit |-> habit, tasks |-> tasks,
     completed |-> completed, propagate |-> propagate, tz |-> tz,
     i |-> 0, fdates |-> <<>>, fi |-> 0, latest |-> NoDate,
     name |-> <<>>, rejected |-> FALSE,
     status |-> "running", value |-> NoValue]

Idle == [Frame("none", "done", 0, "", <<>>, {}, FALSE, 0) EXCEPT !.status = "idle"]

Goto(s, c, pc) == [s |-> s, c |-> [c EXCEPT !.pc = pc]]

Return(s, c, v) ==
    [s |-> s, c |-> [c EXCEPT !.pc = "done", !.status = "ok", !.value = v]]

Throw(s, c) == [s |-> s, c |-> [c EXCEPT !.pc = "done", !.status = "error"]]

\* withTransactionAsync: BEGIN; the connection is shared, so every statement
\* run until COMMIT/ROLLBACK belongs to the transaction.
Begin(s) ==
    [s EXCEPT !.txn = [active |-> TRUE, habits |-> s.habits,
                       user_habits |-> s.user_habits]]

Commit(s) == [s EXCEPT !.txn = NoTxn]

Rollback(s) ==
    IF s.txn.active THEN Store(s.txn.habits, s.txn.user_habits, NoTxn) ELSE s

\* the names a caller may pass: empty, blank, padded, plain
Names == {<<>>, <<" ">>, <<" ", "R">>, <<"R">>}

\* String.prototype.trim on a sequence of characters
RECURSIVE Trim(_)
Trim(name) ==
    IF name = <<>> THEN name
    ELSE IF Head(name) = " " THEN Trim(Tail(name))
    ELSE IF name[Len(name)] = " " THEN Trim(SubSeq(name, 1, Len(name) - 1))
    ELSE name

\* Array.from(new Set(q)): first occurrences, in order
RECURSIVE Dedupe(_)
Dedupe(q) ==
    IF q = <<>> THEN <<>>
    ELSE LET front == Dedupe(SubSeq(q, 1, Len(q) - 1))
             last == q[Len(q)]
         IN  IF last \in Range(front) THEN front ELSE Append(front, last)

CompletedOfAll(rows) == RowHabits(rows)

CompletedOf(rows) ==
    LET Done(r) == r.completed IN RowHabits(SelectSeq(rows, Done))

----------------------------------------------------------------------------
(* saveHabitSelection and syncFutureHabitSelections *)

\* saveHabitSelection returns, or its caller loadHabitSelection goes on
SaveExit(s, c) ==
    IF c.op = "load" THEN Return(s, c, c.value) ELSE Return(s, c, NoValue)

\* saveHabitSelection rethrows; loadHabitSelection only warns (persistError)
SaveThrow(s, c) ==
    IF c.op = "load" THEN Return(s, c, c.value) ELSE Throw(s, c)

AfterInsertsAlwaysSync(s, c) == Goto(s, c, "sync_select")

AfterInserts(s, c) ==
    IF c.propagate THEN Goto(s, c, "sync_select") ELSE Goto(s, c, "save_debug")

IsCompletedFlag(c, taskId) == taskId \in c.completed

saveHabitSelection(s, c, fail) ==
    LET uniqueTasks == Dedupe(c.tasks) IN
    CASE c.pc = "save_delete" ->
           IF fail THEN SaveThrow(s, c)
           ELSE LET s1 == [s EXCEPT !.user_habits = DeleteByDate(@, c.date)]
                IN  IF uniqueTasks = <<>> THEN AfterInserts(s1, c)
                    ELSE Goto(s1, [c EXCEPT !.i = 1], "save_insert")
      [] c.pc = "save_insert" ->
           IF fail THEN SaveThrow(s, c)
           ELSE LET taskId == uniqueTasks[c.i]
                    s1 == [s EXCEPT !.user_habits =
                              InsertOrReplace(@, taskId, c.date,
                                              IsCompletedFlag(c, taskId))]
                IN  IF c.i = Len(uniqueTasks) THEN AfterInserts(s1, c)
                    ELSE Goto(s1, [c EXCEPT !.i = c.i + 1], "save_insert")
      [] c.pc = "save_debug" ->
           \* debugUserHabits(dateKey): a read inside the try block
           IF fail THEN SaveThrow(s, c) ELSE SaveExit(s, c)

NextFutureDate(s, c) ==
    IF c.fi = Len(c.fdates) THEN Goto(s, c, "sync_commit")
    ELSE Goto(s, [c EXCEPT !.fi = c.fi + 1], "sync_delete")

\* every error inside syncFutureHabitSelections is caught and logged
syncFutureHabitSelections(s, c, fail) ==
    LET tasks == Dedupe(c.tasks) IN
    CASE c.pc = "sync_select" ->
           IF fail THEN Goto(s, c, "save_debug")
           ELSE LET futureDates == SelectFutureDates(s.user_habits, c.date)
                IN  IF futureDates = <<>> THEN Goto(s, c, "save_debug")
                    ELSE Goto(s, [c EXCEPT !.fdates = futureDates, !.fi = 1],
                              "sync_begin")
      [] c.pc = "sync_begin" ->
           IF fail \/ s.txn.active THEN Goto(Rollback(s), c, "save_debug")
           ELSE Goto(Begin(s), c, "sync_delete")
      [] c.pc = "sync_delete" ->
           IF fail THEN Goto(Rollback(s), c, "save_debug")
           ELSE LET s1 == [s EXCEPT !.user_habits =
                              DeleteByDate(@, c.fdates[c.fi])]
                IN  IF tasks = <<>> THEN NextFutureDate(s1, c)
                    ELSE Goto(s1, [c EXCEPT !.i = 1], "sync_insert")
      [] c.pc = "sync_insert" ->
           IF fail THEN Goto(Rollback(s), c, "save_debug")
           ELSE LET s1 == [s EXCEPT !.user_habits =
                              InsertOrReplace(@, tasks[c.i], c.fdates[c.fi], FALSE)]
                IN  IF c.i = Len(tasks) THEN NextFutureDate(s1, c)
                    ELSE Goto(s1, [c EXCEPT !.i = c.i + 1], "sync_insert")
      [] c.pc = "sync_commit" ->
           IF fail \/ ~s.txn.active THEN Goto(Rollback(s), c, "save_debug")
           ELSE Goto(Commit(s), c, "save_debug")

----------------------------------------------------------------------------
(* getSuggestedHabitsFromPreviousDay and loadHabitSelection *)

\* the suggestion returns to its caller: loadHabitSelection or the caller
\* of the exported function
SuggestReturnWithFlags(s, c, habitIds) ==
    LET flagged == IF c.latest = NoDate THEN <<>>
                   ELSE CompletedOf(SelectByDate(s.user_habits, c.latest))
        value == [NoValue EXCEPT !.tasks = habitIds, !.completed = flagged]
    IN  IF c.op = "suggest" THEN Return(s, c, value)
        ELSE IF habitIds = <<>> THEN Return(s, c, NoValue)
        ELSE Goto(s, [c EXCEPT !.value = value], "load_suggest_categories")

SuggestReturn(s, c, habitIds) ==
    IF c.op = "suggest" THEN Return(s, c, [NoValue EXCEPT !.tasks = habitIds])
    ELSE IF habitIds = <<>> THEN Return(s, c, NoValue)
    ELSE Goto(s, [c EXCEPT !.value = [NoValue EXCEPT !.tasks = habitIds]],
              "load_suggest_categories")

\* errors are caught and answered with []
getSuggestedHabitsFromPreviousDay(s, c, fail) ==
    CASE c.pc = "suggest_latest" ->
           IF fail THEN SuggestReturn(s, c, <<>>)
           ELSE LET latestDate == SelectLatestBefore(s.user_habits, c.date)
                IN  IF latestDate = NoDate THEN SuggestReturn(s, c, <<>>)
                    ELSE Goto(s, [c EXCEPT !.latest = latestDate], "suggest_rows")
      [] c.pc = "suggest_rows" ->
           IF fail THEN SuggestReturn(s, c, <<>>)
           ELSE SuggestReturn(s, c, RowHabits(SelectByDate(s.user_habits, c.latest)))

loadHabitSelectionReadOnly(s, c, fail) ==
    CASE c.pc = "load_select" ->
           IF fail THEN Return(s, c, NoValue)
           ELSE LET rows == SelectByDate(s.user_habits, c.date)
                IN  IF rows = <<>> THEN Goto(s, c, "suggest_latest")
                    ELSE Goto(s, [c EXCEPT !.value =
                                    [NoValue EXCEPT !.tasks = RowHabits(rows),
                                                    !.completed = CompletedOf(rows)]],
                              "load_categories")
      [] c.pc \in {"load_categories", "load_suggest_categories"} ->
           IF fail THEN Return(s, c, NoValue)
           ELSE Return(s, c, [c.value EXCEPT !.categories =
                                getCategoriesForTasks(s.habits, c.value.tasks)])

\* errors are caught and answered with the empty selection
loadHabitSelection(s, c, fail) ==
    CASE c.pc = "load_select" ->
           IF fail THEN Return(s, c, NoValue)
           ELSE LET rows == SelectByDate(s.user_habits, c.date)
                IN  IF rows = <<>> THEN Goto(s, c, "suggest_latest")
                    ELSE Goto(s, [c EXCEPT !.value =
                                    [NoValue EXCEPT !.tasks = RowHabits(rows),
                                                    !.completed = CompletedOf(rows)]],
                              "load_categories")
      [] c.pc = "load_categories" ->
           IF fail THEN Return(s, c, NoValue)
           ELSE Return(s, c, [c.value EXCEPT !.categories =
                                getCategoriesForTasks(s.habits, c.value.tasks)])
      [] c.pc = "load_suggest_categories" ->
           IF fail THEN Return(s, c, NoValue)
           ELSE \* saveHabitSelection(dateKey, suggestedSelection,
                \*                    {propagateToFuture: false})
                Goto(s, [c EXCEPT !.value.categories =
                                     getCategoriesForTasks(s.habits, c.value.tasks),
                                  !.tasks = c.value.tasks,
                                  !.completed = {},
                                  !.propagate = FALSE],
                     "save_delete")

----------------------------------------------------------------------------
(* Catalog and single-row operations *)

deleteCustomHabitKeepRows(s, c, fail) ==
    CASE c.pc = "delete_rows" ->
           IF fail THEN Throw(s, c) ELSE Goto(s, c, "delete_habit")
      [] c.pc = "delete_habit" ->
           IF fail THEN Throw(s, c)
           ELSE Return([s EXCEPT !.habits = @ \ {c.habit}], c, NoValue)

deleteCustomHabit(s, c, fail) ==
    CASE c.pc = "delete_rows" ->
           IF fail THEN Throw(s, c)
           ELSE Goto([s EXCEPT !.user_habits = DeleteByHabit(@, c.habit)], c,
                     "delete_habit")
      [] c.pc = "delete_habit" ->
           IF fail THEN Throw(s, c)
           ELSE Return([s EXCEPT !.habits = @ \ {c.habit}], c, NoValue)

\* INSERT INTO habits: id is the PRIMARY KEY
createCustomHabit(s, c, fail) ==
    IF fail \/ c.habit \in s.habits THEN Throw(s, c)
    ELSE Return([s EXCEPT !.habits = @ \cup {c.habit}], c, NoValue)

removeHabitFromDate(s, c, fail) ==
    IF fail THEN Throw(s, c)
    ELSE Return([s EXCEPT !.user_habits = DeleteByHabitDate(@, c.habit, c.date)],
                c, NoValue)

toggleHabitCompletion(s, c, fail) ==
    IF fail THEN Throw(s, c)
    ELSE Return([s EXCEPT !.user_habits =
                    UpdateCompleted(@, c.habit, c.date, c.habit \in c.completed)],
                c, NoValue)

\* habit_logs and streaks are never written by the engine: their DELETEs
\* change nothing but can fail like any statement
resetAllHabitProgress(s, c, fail) ==
    CASE c.pc = "reset_begin" ->
           IF fail \/ s.txn.active THEN Throw(Rollback(s), c)
           ELSE Goto(Begin(s), c, "reset_user_habits")
      [] c.pc = "reset_user_habits" ->
           IF fail THEN Throw(Rollback(s), c)
           ELSE Goto([s EXCEPT !.user_habits = DeleteAllRows(@)], c, "reset_logs")
      [] c.pc = "reset_logs" ->
           IF fail THEN Throw(Rollback(s), c) ELSE Goto(s, c, "reset_streaks")
      [] c.pc = "reset_streaks" ->
           IF fail THEN Throw(Rollback(s), c) ELSE Goto(s, c, "reset_commit")
      [] c.pc = "reset_commit" ->
           IF fail \/ ~s.txn.active THEN Throw(Rollback(s), c)
           ELSE Return(Commit(s), c, NoValue)

NextAddDate(s, c) ==
    IF c.fi = Len(c.fdates) THEN Goto(s, c, "add_commit")
    ELSE Goto(s, [c EXCEPT !.fi = c.fi + 1], "add_check")

\* every error is caught and logged; the function returns normally
addHabitToFutureSelections(s, c, fail) ==
    CASE c.pc = "add_select" ->
           IF fail THEN Return(s, c, NoValue)
           ELSE LET futureDates == SelectFutureDates(s.user_habits, c.date)
                IN  IF futureDates = <<>> THEN Return(s, c, NoValue)
                    ELSE Goto(s, [c EXCEPT !.fdates = futureDates, !.fi = 1],
                              "add_begin")
      [] c.pc = "add_begin" ->
           IF fail \/ s.txn.active THEN Return(Rollback(s), c, NoValue)
           ELSE Goto(Begin(s), c, "add_check")
      [] c.pc = "add_check" ->
           IF fail THEN Return(Rollback(s), c, NoValue)
           ELSE IF HasRow(s.user_habits, c.habit, c.fdates[c.fi])
                THEN NextAddDate(s, c)
                ELSE Goto(s, c, "add_insert")
      [] c.pc = "add_insert" ->
           IF fail THEN Return(Rollback(s), c, NoValue)
           ELSE IF InsertRejected(s.user_habits, c.habit, c.fdates[c.fi])
           THEN \* UNIQUE constraint failed: caught like any error
                Return(Rollback(s), [c EXCEPT !.rejected = TRUE], NoValue)
           ELSE NextAddDate([s EXCEPT !.user_habits =
                                InsertRow(@, c.habit, c.fdates[c.fi], FALSE)], c)
      [] c.pc = "add_commit" ->
           IF fail \/ ~s.txn.active THEN Return(Rollback(s), c, NoValue)
           ELSE Return(Commit(s), c, NoValue)

\* loadAllHabitSelections: one SELECT ... ORDER BY date, id, then one
\* category query per date; errors are caught and answered with {}
loadAllHabitSelections(s, c, fail) ==
    CASE c.pc = "all_select" ->
           IF fail THEN Return(s, c, NoValue)
           ELSE LET dates == Ascending(s.user_habits, 1, LastKey(s.user_habits))
                    selectionMap ==
                        [d \in Range(dates) |->
                            [tasks |-> RowHabits(s.user_habits[d]),
                             completed |-> CompletedOf(s.user_habits[d]),
                             categories |-> {}]]
                IN  IF dates = <<>> THEN Return(s, c, NoValue)
                    ELSE Goto(s, [c EXCEPT !.fdates = dates, !.fi = 1,
                                           !.value.all = selectionMap],
                              "all_categories")
      [] c.pc = "all_categories" ->
           IF fail THEN Return(s, c, NoValue)
           ELSE LET d == c.fdates[c.fi]
                    c1 == [c EXCEPT !.value.all[d].categories =
                              getCategoriesForTasks(s.habits, c.value.all[d].tasks)]
                IN  IF c.fi = Len(c.fdates) THEN Return(s, c1, c1.value)
                    ELSE Goto(s, [c1 EXCEPT !.fi = c.fi + 1], "all_categories")

----------------------------------------------------------------------------
(* Streaks *)

\* errors are caught and answered with 0
calculateHabitStreak(s, c, fail) ==
    IF fail THEN Return(s, c, NoValue)
    ELSE LET rows == SelectCompletedDates(s.user_habits, c.habit, c.date,
                                          StreakRowLimit)
         IN  Return(s, c, [NoValue EXCEPT !.streak =
                              StreakOfRows(rows, c.date, c.tz)])

\* one query for all ids, no LIMIT; rows are grouped by habit_id
getHabitStreaks(s, c, fail) ==
    LET zeros == [h \in Range(c.tasks) |-> 0] IN
    IF fail THEN Return(s, c, [NoValue EXCEPT !.streaks = zeros])
    ELSE Return(s, c, [NoValue EXCEPT !.streaks =
            [h \in Range(c.tasks) |->
                \* at most one row per date, so this limit never cuts
                StreakOfRows(SelectCompletedDates(s.user_habits, h, c.date,
                                 Cardinality(DOMAIN s.user_habits)),
                             c.date, c.tz)]])

----------------------------------------------------------------------------
(* One statement of a call, and a call awaited to its end *)

\* the tasks of HABIT_CATEGORIES, category by category
CategoryTasks == <<"h1">>

insertHabitsUnchecked(s, c, fail) ==
    LET taskId == CategoryTasks[c.i] IN
    IF fail \/ taskId \in s.habits THEN Throw(s, c)
    ELSE LET s1 == [s EXCEPT !.habits = @ \cup {taskId}]
         IN  IF c.i = Len(CategoryTasks) THEN Return(s1, c, NoValue)
             ELSE Goto(s1, [c EXCEPT !.i = c.i + 1], "seed_select")

insertHabitsFromCategories(s, c, fail) ==
    LET taskId == CategoryTasks[c.i]
        NextTask(s1) ==
            IF c.i = Len(CategoryTasks) THEN Return(s1, c, NoValue)
            ELSE Goto(s1, [c EXCEPT !.i = c.i + 1], "seed_select")
    IN
    CASE c.pc = "seed_select" ->
           \* SELECT id FROM habits WHERE id = ?
           IF fail THEN Throw(s, c)
           ELSE IF taskId \in s.habits THEN NextTask(s)
           ELSE Goto(s, c, "seed_insert")
      [] c.pc = "seed_insert" ->
           \* INSERT INTO habits: id is the PRIMARY KEY
           IF fail \/ taskId \in s.habits THEN Throw(s, c)
           ELSE NextTask([s EXCEPT !.habits = @ \cup {taskId}])

Step(s, c, fail) ==
    CASE c.pc \in {"save_delete", "save_insert", "save_debug"} ->
           saveHabitSelection(s, c, fail)
      [] c.pc \in {"sync_select", "sync_begin", "sync_delete", "sync_insert",
                   "sync_commit"} ->
           syncFutureHabitSelections(s, c, fail)
      [] c.pc \in {"load_select", "load_categories", "load_suggest_categories"} ->
           loadHabitSelection(s, c, fail)
      [] c.pc \in {"suggest_latest", "suggest_rows"} ->
           getSuggestedHabitsFromPreviousDay(s, c, fail)
      [] c.pc \in {"delete_rows", "delete_habit"} -> deleteCustomHabit(s, c, fail)
      [] c.pc = "create_insert" -> createCustomHabit(s, c, fail)
      [] c.pc \in {"seed_select", "seed_insert"} ->
           insertHabitsFromCategories(s, c, fail)
      [] c.pc = "remove_delete" -> removeHabitFromDate(s, c, fail)
      [] c.pc = "toggle_update" -> toggleHabitCompletion(s, c, fail)
      [] c.pc \in {"reset_begin", "reset_user_habits", "reset_logs",
                   "reset_streaks", "reset_commit"} ->
           resetAllHabitProgress(s, c, fail)
      [] c.pc \in {"add_select", "add_begin", "add_check", "add_insert",
                   "add_commit"} ->
           addHabitToFutureSelections(s, c, fail)
      [] c.pc \in {"all_select", "all_categories"} ->
           loadAllHabitSelections(s, c, fail)
      [] c.pc = "streak_select" -> calculateHabitStreak(s, c, fail)
      [] c.pc = "streaks_select" -> getHabitStreaks(s, c, fail)

\* r = [s, c, k]: the store, the frame, and the countdown to the statement
\* that throws (k = 1: the next one; k <= 0: none)
StepOnce(r) ==
    IF r.c.pc = "done" THEN r
    ELSE LET q == Step(r.s, r.c, r.k = 1)
         IN  [s |-> q.s, c |-> q.c, k |-> r.k - 1]

\* n statements, one after the other (halved to stay shallow on long loops)
RECURSIVE Run(_, _)
Run(r, n) ==
    IF n = 1 THEN StepOnce(r)
    ELSE CHOOSE out \in {IF half.c.pc = "done" THEN half
                         ELSE Run(half, n - (n \div 2)) :
                             half \in {Run(r, n \div 2)}} : TRUE

RECURSIVE RunToEnd(_, _)
RunToEnd(r, n) ==
    CHOOSE out \in {IF after.c.pc = "done" THEN after
                    ELSE RunToEnd(after, 2 * n) : after \in {Run(r, n)}} : TRUE

\* the call awaited to its end.  failAt = k > 0: the k-th statement the call
\* issues throws; 0: none does
Exec(s, c, failAt) == RunToEnd([s |-> s, c |-> c, k |-> failAt], 1)

----------------------------------------------------------------------------
(* The calls of the engine's interface *)

SaveCall(d, tasks, completed, propagate) ==
    Frame("save", "save_delete", d, "", tasks, completed, propagate, 0)

LoadCall(d) == Frame("load", "load_select", d, "", <<>>, {}, FALSE, 0)

SuggestCall(d) == Frame("suggest", "suggest_latest", d, "", <<>>, {}, FALSE, 0)

DeleteCall(h) == Frame("delete", "delete_rows", 0, h, <<>>, {}, FALSE, 0)

\* createCustomHabit(name, description, icon); a name is the sequence of
\* its characters, and h the id the call generates
CreateNamed(h, name) ==
    [Frame("create", "create_insert", 0, h, <<>>, {}, FALSE, 0)
        EXCEPT !.name = name]

CreateCall(h) == CreateNamed(h, <<"R">>)

RemoveCall(h, d) == Frame("remove", "remove_delete", d, h, <<>>, {}, FALSE, 0)

ToggleCall(h, d, completed) ==
    Frame("toggle", "toggle_update", d, h, <<>>,
          IF completed THEN {h} ELSE {}, FALSE, 0)

ResetCall == Frame("reset", "reset_begin", 0, "", <<>>, {}, FALSE, 0)

AddFutureCall(h, d) == Frame("addFuture", "add_select", d, h, <<>>, {}, FALSE, 0)

SeedCall == [Frame("seed", "seed_select", 0, "", <<>>, {}, FALSE, 0) EXCEPT !.i = 1]

ReadAllCall == Frame("readAll", "all_select", 0, "", <<>>, {}, FALSE, 0)

StreakCall(h, d, tz) == Frame("streak", "streak_select", d, h, <<>>, {}, FALSE, tz)

StreaksCall(ids, d, tz) ==
    Frame("streaks", "streaks_select", d, "", ids, {}, FALSE, tz)

----------------------------------------------------------------------------
(* getDatabase.  `db` is the handle (NoHandle: null), `promise` is          *)
(* dbInitPromise.  Handles are numbered by the openDatabaseAsync call that *)
(* produced them, so two opens give two different handles.  The body up to *)
(* its first await runs without interruption, so a call is one step.       *)

NoHandle == 0

Callers == {"home", "streak", "customHabit"}

Closed == [db |-> NoHandle, promise |-> "none", opens |-> 0, failures |-> 0]

NotCalling == [status |-> "idle", handle |-> NoHandle, how |-> "none"]

Answer(status, handle, how) == [status |-> status, handle |-> handle, how |-> how]

getDatabaseNoPromiseCheck(cn) ==
    IF cn.db # NoHandle
    THEN [conn |-> cn, answer |-> Answer("handle", cn.db, "cached")]
    ELSE [conn |-> [cn EXCEPT !.promise = "pending", !.opens = @ + 1],
          answer |-> Answer("waiting", NoHandle, "started")]

\* what one call does with the module state, and what its caller gets
getDatabase(cn) ==
    IF cn.db # NoHandle
    THEN [conn |-> cn, answer |-> Answer("handle", cn.db, "cached")]
    ELSE IF cn.promise = "pending"
    THEN [conn |-> cn, answer |-> Answer("waiting", NoHandle, "joined")]
    ELSE [conn |-> [cn EXCEPT !.promise = "pending", !.opens = @ + 1],
          answer |-> Answer("waiting", NoHandle, "started")]

----------------------------------------------------------------------------
(* The day view: HomeScreen of app/(tabs)/(home)/index.tsx.  Its state is  *)
(* storedTaskIds (`tasks`, which selectionRef.current.tasks follows),      *)
(* completedIds (`completed`), selectedDateKey (`date`),                   *)
(* hydratedDateRef (`hydrated`), the timers setTimeout has pending, in the *)
(* order they were armed (`timers`; `refLive`: the one persistTimeoutRef   *)
(* names is the last of them), and the hydrate() calls in flight (`loads`, *)
(* a bag).  `last` tells whether the last step was a write of the view    *)
(* ("toggle", "remove", "persist") or cancelled a pending timer            *)
(* ("cancel"); `edits` counts the state changes the pending timer stands   *)
(* for; `shown` is the date whose selection applySelection put into the   *)
(* state, `unread` the rows of that date a failed load did not return,    *)
(* `source` the `shown` and `unread` of the state a write carried;        *)
(* `added` is the date the custom habit screen saved a new habit          *)
(* into, until the user removes that habit.  A state change and the        *)
(* effects it schedules are one step.                                      *)

\* what a write of the view carried: the `shown` and `unread` of its state
NoSource == [shown |-> NoDate, unread |-> <<>>]

Fresh(d) ==
    [screen |-> "home", date |-> d, tasks |-> <<>>, completed |-> {},
     hydrated |-> NoDate, timers |-> <<>>, refLive |-> FALSE,
     loads |-> EmptyBag, last |-> "none", edits |-> 0, added |-> NoDate,
     shown |-> NoDate, unread |-> <<>>, source |-> NoSource]

NoView == [Fresh(NoDate) EXCEPT !.screen = "onboarding"]

Event(v, name) == [v EXCEPT !.last = name, !.source = NoSource]

Carried(v) == [shown |-> v.shown, unread |-> v.unread]

\* a step that ends the life of the effect's last run
Cancelling(v) == Event(v, IF v.timers # <<>> THEN "cancel" ELSE "none")

\* hydrate() of the useEffect (focus FALSE) or the useFocusEffect (TRUE)
Hydrate(d, focus) ==
    [date |-> d, focus |-> focus, active |-> TRUE, pc |-> "load",
     tasks |-> <<>>, completed |-> {}, unread |-> <<>>]

\* what the timer's callback closes over
Payload(v) ==
    [date |-> v.date, tasks |-> v.tasks, completed |-> v.completed,
     shown |-> v.shown, unread |-> v.unread]

KeepTimeout(v) == v

\* if (persistTimeoutRef.current) clearTimeout(persistTimeoutRef.current)
ClearTimeout(v) ==
    IF v.refLive
    THEN [v EXCEPT !.timers = SubSeq(@, 1, Len(@) - 1), !.refLive = FALSE]
    ELSE v

Arm(v, c) ==
    [c EXCEPT !.timers = Append(@, Payload(c)), !.refLive = TRUE,
              !.edits = IF v.timers # <<>> THEN Min(v.edits + 1, MaxEdits)
                        ELSE 1]

PersistEffectKeepFirst(v) ==
    IF v.hydrated # v.date THEN [ClearTimeout(v) EXCEPT !.edits = 0]
    ELSE IF v.timers # <<>>
         THEN [v EXCEPT !.edits = Min(v.edits + 1, MaxEdits)]
         ELSE Arm(v, v)

\* the debounce effect after one of its dependencies changed: the cleanup
\* of its last run, then its body
PersistEffect(v) ==
    LET c == ClearTimeout(v)
    IN  IF c.hydrated # c.date THEN [c EXCEPT !.edits = 0] ELSE Arm(v, c)

applySelection(v, tasks, completed) ==
    LET uniqueTasks == Dedupe(tasks)
    IN  [v EXCEPT !.tasks = uniqueTasks,
                  !.completed = completed \cap Range(uniqueTasks)]

ViewSaveToFuture(d, tasks, completed) == SaveCall(d, tasks, completed, TRUE)

\* saveHabitSelection(selectedDateKey, ..., { propagateToFuture: false })
ViewSave(d, tasks, completed) == SaveCall(d, tasks, completed, FALSE)

\* isActive = false in the cleanup of the hydrating effects; a call that
\* is then past its load returns at `if (!isActive)`
Deactivated(l) == [l EXCEPT !.active = FALSE]

Deactivate(loads, focusOnly) ==
    LET Hit(l) == l.active /\ (focusOnly => l.focus)
        gone == {l \in DOMAIN loads : Hit(l) /\ l.pc = "apply"}
        kept == [l \in DOMAIN loads \ gone |-> loads[l]]
        Turn(l) == IF Hit(l) THEN Deactivated(l) ELSE l
    IN  BagOfAll(Turn, kept)

\* the calls an unmounted view leaves behind: those that have yet to load
Orphans(loads) ==
    LET all == Deactivate(loads, FALSE)
    IN  [l \in {x \in DOMAIN all : x.pc = "load"} |-> all[l]]

AddLoad(loads, l) == loads (+) SetToBag({l})

DropLoad(loads, l) == loads (-) SetToBag({l})

----------------------------------------------------------------------------
(* State machine *)

Slots == {1, 2}

\* `threw`: a statement of the call threw
NoPre == [habits |-> {}, user_habits |-> <<>>, threw |-> FALSE]

\* AsyncStorage of an installation that never had legacy selections; `last`,
\* `writes` and `starts` record what the starts of the app did
NoStorage ==
    [flag |-> FALSE, legacy |-> <<>>, last |-> "none", writes |-> 0, starts |-> 0]

InitStore(dom) ==
    /\ habits = BuiltinHabits
    /\ user_habits = EmptyTable(dom)
    /\ txn = NoTxn
    /\ calls = [p \in Slots |-> Idle]
    /\ ret = Idle
    /\ pre = NoPre
    /\ conn = Closed
    /\ clients = [p \in Callers |-> NotCalling]
    /\ view = NoView
    /\ storage = NoStorage

Init == InitStore(DateKeys)

\* a call that its caller awaits: it runs to its end before anything else
Ready == ret.status = "idle"

Perform(frame, failAt) ==
    \E r \in {Exec(Store(habits, user_habits, txn), frame, failAt)} :
        /\ habits' = r.s.habits
        /\ user_habits' = r.s.user_habits
        /\ txn' = r.s.txn
        /\ ret' = r.c
        /\ pre' = [habits |-> habits, user_habits |-> user_habits,
                   threw |-> failAt > 0 /\ r.k <= 0]

Call(frame, failAt) ==
    /\ Perform(frame, failAt)
    /\ UNCHANGED <<calls, app>>

\* the caller takes the result
Returned ==
    /\ ret.status # "idle"
    /\ ret' = Idle
    /\ pre' = NoPre
    /\ UNCHANGED <<habits, user_habits, txn, calls, app>>

\* the task ids a caller passes are ids it read from the catalog; the list
\* may repeat an id and `completed` may name ids that are not in the list
SaveCalls ==
    {SaveCall(d, tasks, completed, propagate) :
        d \in DateKeys, tasks \in SeqsUpTo(habits, MaxLen),
        completed \in SUBSET Habits, propagate \in BOOLEAN}

SaveHabitSelection ==
    /\ Ready
    /\ \E frame \in SaveCalls : Call(frame, 0)

LoadHabitSelection ==
    /\ Ready
    /\ \E d \in DateKeys : Call(LoadCall(d), 0)

GetSuggestedHabitsFromPreviousDay ==
    /\ Ready
    /\ \E d \in 1..(MaxDate + 1) : Call(SuggestCall(d), 0)

\* the id is generated from the clock and a random suffix: a fresh one
CreateCustomHabit ==
    /\ Ready
    /\ \E h \in CustomHabits \ habits, name \in Names :
          Call(CreateNamed(h, name), 0)

DeleteCustomHabit ==
    /\ Ready
    /\ \E h \in CustomHabits : Call(DeleteCall(h), 0)

RemoveHabitFromDate ==
    /\ Ready
    /\ \E h \in Habits, d \in DateKeys : Call(RemoveCall(h, d), 0)

ToggleHabitCompletion ==
    /\ Ready
    /\ \E h \in Habits, d \in DateKeys, completed \in BOOLEAN :
          Call(ToggleCall(h, d, completed), 0)

ResetAllHabitProgress ==
    /\ Ready
    /\ Call(ResetCall, 0)

AddHabitToFutureSelections ==
    /\ Ready
    /\ \E h \in Habits, d \in DateKeys : Call(AddFutureCall(h, d), 0)

CalculateHabitStreak ==
    /\ Ready
    /\ \E h \in Habits, d \in DateKeys, tz \in TzOffsets : Call(StreakCall(h, d, tz), 0)

GetHabitStreaks ==
    /\ Ready
    /\ \E ids \in TaskLists, d \in DateKeys, tz \in TzOffsets :
          Call(StreaksCall(ids, d, tz), 0)

LoadAllHabitSelections ==
    /\ Ready
    /\ Call(ReadAllCall, 0)

Next ==
    \/ SaveHabitSelection
    \/ LoadHabitSelection
    \/ GetSuggestedHabitsFromPreviousDay
    \/ CreateCustomHabit
    \/ DeleteCustomHabit
    \/ RemoveHabitFromDate
    \/ ToggleHabitCompletion
    \/ ResetAllHabitProgress
    \/ AddHabitToFutureSelections
    \/ CalculateHabitStreak
    \/ GetHabitStreaks
    \/ LoadAllHabitSelections
    \/ Returned

Spec == Init /\ [][Next]_vars

----------------------------------------------------------------------------
(* SpecFail: a store statement of a call throws *)

FailingSave ==
    /\ Ready
    /\ \E frame \in SaveCalls, k \in 1..MaxFailAt : Call(frame, k)

\* the calls that only answer a question
ReadCalls ==
    {LoadCall(d) : d \in DateKeys}
    \cup {SuggestCall(d) : d \in DateKeys}
    \cup {ReadAllCall}
    \cup {StreakCall(h, d, tz) : h \in habits, d \in DateKeys, tz \in TzOffsets}
    \cup {StreaksCall(ids, d, tz) :
            ids \in SeqsUpTo(habits, MaxLen), d \in DateKeys, tz \in TzOffsets}

FailingRead ==
    /\ Ready
    /\ \E frame \in ReadCalls, k \in 1..MaxFailAt : Call(frame, k)

FailingReset ==
    /\ Ready
    /\ \E k \in 0..MaxFailAt : Call(ResetCall, k)

NextFail ==
    \/ SaveHabitSelection
    \/ CreateCustomHabit
    \/ FailingSave
    \/ FailingRead
    \/ FailingReset
    \/ Returned

SpecFail == Init /\ [][NextFail]_vars

----------------------------------------------------------------------------
(* SpecConc: two writes triggered one after the other, neither awaited.    *)
(* Slot 1 is triggered first.  Both run up to their first statement in     *)
(* trigger order; after that the statements interleave freely.             *)

\* the calls that write rows: saves from the day view (not propagated) and
\* from onboarding (propagated), reads that materialize a suggestion, and
\* addHabitToFutureSelections
WritingCalls ==
    {SaveCall(d, tasks, completed, FALSE) :
        d \in DateKeys, tasks \in SeqsUpTo(habits, MaxLen),
        completed \in SUBSET Habits}
    \cup {SaveCall(d, tasks, {}, TRUE) :
        d \in DateKeys, tasks \in SeqsUpTo(habits, MaxLen)}
    \cup {LoadCall(d) : d \in DateKeys}
    \cup {AddFutureCall(h, d) : h \in habits, d \in DateKeys}

\* the call has not issued its first statement yet
AtFirstStatement(c) ==
    \/ c.op = "save" /\ c.pc = "save_delete"
    \/ c.op = "load" /\ c.pc = "load_select"
    \/ c.op = "addFuture" /\ c.pc = "add_select"

Trigger(p) ==
    /\ calls[p].status = "idle"
    /\ p = 2 => calls[1].status # "idle"
    /\ \E frame \in WritingCalls : calls' = [calls EXCEPT ![p] = frame]
    /\ UNCHANGED <<habits, user_habits, txn, ret, pre, app>>

Statement(p) ==
    /\ calls[p].status = "running"
    /\ p = 2 => ~AtFirstStatement(calls[1])
    /\ LET r == Step(Store(habits, user_habits, txn), calls[p], FALSE)
       IN  /\ habits' = r.s.habits
           /\ user_habits' = r.s.user_habits
           /\ txn' = r.s.txn
           /\ calls' = [calls EXCEPT ![p] = r.c]
    /\ UNCHANGED <<ret, pre, app>>

\* the custom habit is created (and the call awaited) before the writes
CreateFirst ==
    /\ \A p \in Slots : calls[p].status = "idle"
    /\ habits = BuiltinHabits
    /\ habits' = habits \cup CustomHabits
    /\ UNCHANGED <<user_habits, txn, calls, ret, pre, app>>

NextConc == CreateFirst \/ \E p \in Slots : Trigger(p) \/ Statement(p)

SpecConc == Init /\ [][NextConc]_vars

----------------------------------------------------------------------------
(* SpecStreak: one habit over a long run of days.  Each day the user marks *)
(* the habit done; within the first GapWindow days a day may be missed.    *)

StreakHabit == "h1"

LastDate == SelectLatestBefore(user_habits, MaxDay + 1)

InitStreak == InitStore(StreakDays)

CompleteDay ==
    /\ Ready
    /\ \E d \in {LastDate + 1, LastDate + 2} :
        /\ d <= MaxDay
        /\ d = LastDate + 2 => d <= GapWindow
        /\ Call(SaveCall(d, <<StreakHabit>>, {StreakHabit}, FALSE), 0)

AsOfDates == {d \in {LastDate - 1, LastDate, LastDate + 1} : d \in StreakDays}

StreakAsOf ==
    /\ Ready
    /\ \E d \in AsOfDates, tz \in TzOffsets : Call(StreakCall(StreakHabit, d, tz), 0)

StreaksAsOf ==
    /\ Ready
    /\ \E d \in AsOfDates, tz \in TzOffsets :
          Call(StreaksCall(<<StreakHabit>>, d, tz), 0)

\* after MaxDay days of tracking, the habit list of the first day is saved
\* again as the template of every later day (handleContinue)
SaveTemplate ==
    /\ Ready
    /\ LastDate = MaxDay
    /\ Call(SaveCall(1, <<StreakHabit>>, {}, TRUE), 0)

\* after MaxDay days of tracking a custom habit is created on the first day
\* and added to the later days (CustomHabitScreen.handleSave)
AddToLaterDays ==
    /\ Ready
    /\ LastDate = MaxDay
    /\ Call(AddFutureCall("custom_1", 1), 0)

NextStreak ==
    \/ CompleteDay
    \/ StreakAsOf
    \/ StreaksAsOf
    \/ SaveTemplate
    \/ AddToLaterDays
    \/ Returned

SpecStreak == InitStreak /\ [][NextStreak]_vars

----------------------------------------------------------------------------
(* SpecStale: a caller saves the task list it holds in memory.  The ids    *)
(* were read earlier, so the catalog may have lost one of them since;      *)
(* saveHabitSelection takes whatever ids it is given.                      *)

SaveHeldSelection ==
    /\ Ready
    /\ \E d \in DateKeys, tasks \in TaskLists, completed \in SUBSET Habits :
          Call(SaveCall(d, tasks, completed, FALSE), 0)

NextStale ==
    SaveHeldSelection \/ CreateCustomHabit \/ DeleteCustomHabit \/ Returned

SpecStale == Init /\ [][NextStale]_vars

----------------------------------------------------------------------------
(* SpecOpen: callers ask for the database before and after it is open;     *)
(* openDatabaseAsync succeeds or throws.                                   *)

Unstored ==
    UNCHANGED <<habits, user_habits, txn, calls, ret, pre, view, storage>>

GetDatabase(p) ==
    /\ clients[p].status = "idle"
    /\ LET r == getDatabase(conn)
       IN  /\ r.conn.opens <= MaxOpens
           /\ conn' = r.conn
           /\ clients' = [clients EXCEPT ![p] = r.answer]
    /\ Unstored

\* db = await SQLite.openDatabaseAsync(...) resolves: every caller waiting on
\* the promise gets the handle
OpenResolves ==
    /\ conn.promise = "pending"
    /\ conn' = [conn EXCEPT !.db = conn.opens, !.promise = "resolved"]
    /\ clients' = [p \in Callers |->
                     IF clients[p].status = "waiting"
                     THEN [clients[p] EXCEPT !.status = "handle",
                                             !.handle = conn.opens]
                     ELSE clients[p]]
    /\ Unstored

OpenRejectsKeepsPromise ==
    /\ conn.promise = "pending"
    /\ conn' = [conn EXCEPT !.promise = "rejected", !.failures = @ + 1]
    /\ clients' = [p \in Callers |->
                     IF clients[p].status = "waiting"
                     THEN [clients[p] EXCEPT !.status = "error"]
                     ELSE clients[p]]
    /\ Unstored

\* it throws: dbInitPromise = null, and the error goes to every waiter
OpenRejects ==
    /\ conn.promise = "pending"
    /\ conn' = [conn EXCEPT !.promise = "none", !.failures = @ + 1]
    /\ clients' = [p \in Callers |->
                     IF clients[p].status = "waiting"
                     THEN [clients[p] EXCEPT !.status = "error"]
                     ELSE clients[p]]
    /\ Unstored

\* the caller is done with what it got and may call again
CallerDone(p) ==
    /\ clients[p].status \in {"handle", "error"}
    /\ clients' = [clients EXCEPT ![p] = NotCalling]
    /\ UNCHANGED conn
    /\ Unstored

NextOpen ==
    \/ \E p \in Callers : GetDatabase(p) \/ CallerDone(p)
    \/ OpenResolves
    \/ OpenRejects

SpecOpen == Init /\ [][NextOpen]_vars

----------------------------------------------------------------------------
(* SpecDays: the days of one habit are saved and read, over one day more   *)
(* than Spec has, so that an unset day can lie before and after a set one. *)

ReadDays == 1..(MaxDate + 1)

InitDays == InitStore(ReadDays)

SaveDay ==
    /\ Ready
    /\ \E d \in ReadDays, tasks \in SeqsUpTo(BuiltinHabits, 1),
          completed \in SUBSET BuiltinHabits :
          Call(SaveCall(d, tasks, completed, FALSE), 0)

ReadDay ==
    /\ Ready
    /\ \E d \in ReadDays, k \in 0..MaxFailAt : Call(LoadCall(d), k)

NextDays == SaveDay \/ ReadDay \/ Returned

SpecDays == InitDays /\ [][NextDays]_vars

----------------------------------------------------------------------------
(* SpecView: the day view between onboarding, the custom habit screen and  *)
(* its own handlers.  The saves the view issues are not awaited; here each *)
(* runs to its end in the step that issues it (SpecConc interleaves the    *)
(* statements of such calls).  The streak reads of the handlers leave the  *)
(* store and the view's selection alone and are left out.                  *)

Quiet ==
    /\ ret' = Idle
    /\ pre' = NoPre
    /\ UNCHANGED <<habits, user_habits, txn>>

Rest == UNCHANGED <<calls, conn, clients, storage>>

Room(loads, n) == BagCardinality(loads) + n <= MaxLoads

\* onboarding: handleContinue saves the picked tasks for today and on
HandleContinue ==
    /\ view.screen = "onboarding"
    /\ \E d \in DateKeys, tasks \in SeqsUpTo(BuiltinHabits, 1) \ {<<>>} :
          Perform(SaveCall(d, tasks, {}, TRUE), 0)
    /\ view' = [view EXCEPT !.screen = "away"]
    /\ Rest

\* the view mounts on the date of its parameter or today: both hydrating
\* effects run
Mount ==
    /\ view.screen = "away"
    /\ Room(view.loads, 2)
    /\ \E d \in DateKeys :
          view' = [Fresh(d) EXCEPT
                     !.timers = view.timers,
                     !.loads = AddLoad(AddLoad(view.loads, Hydrate(d, FALSE)),
                                       Hydrate(d, TRUE))]
    /\ Quiet
    /\ Rest

\* the cleanups of the effects run; state and refs are gone
Unmount ==
    /\ view.screen = "home"
    /\ view' = [NoView EXCEPT
                  !.screen = "away",
                  !.last = Cancelling(view).last,
                  !.timers = ClearTimeout(view).timers,
                  !.loads = Orphans(view.loads)]
    /\ Quiet
    /\ Rest

\* handleSelectDate: selectedDateKey changes, so the cleanups run, then
\* hydratedDateRef.current = null, both hydrates, and the debounce effect
SelectDate ==
    /\ view.screen = "home"
    /\ Room(Deactivate(view.loads, FALSE), 2)
    /\ \E d \in DateKeys \ {view.date} :
          view' = PersistEffect(
                    [Cancelling(view) EXCEPT
                       !.date = d,
                       !.hydrated = NoDate,
                       !.loads = AddLoad(AddLoad(Deactivate(view.loads, FALSE),
                                                 Hydrate(d, FALSE)),
                                         Hydrate(d, TRUE))])
    /\ Quiet
    /\ Rest

\* router.push('/customHabit'): the view loses focus
HandleAddPress ==
    /\ view.screen = "home"
    /\ view' = [Event(view, "none") EXCEPT
                  !.screen = "customHabit",
                  !.loads = Deactivate(view.loads, TRUE)]
    /\ Quiet
    /\ Rest

\* CustomHabitScreen.handleSave: createCustomHabit, loadHabitSelection and
\* saveHabitSelection, each awaited
HandleSave ==
    /\ view.screen = "customHabit"
    /\ \E h \in CustomHabits \ habits, habitName \in Names :
          \* if (!habitName.trim()) { Alert; return }
          /\ Trim(habitName) # <<>>
          /\ LET created == Exec(Store(habits, user_habits, txn),
                                 CreateNamed(h, Trim(habitName)), 0)
                 loaded == Exec(created.s, LoadCall(view.date), 0)
                 current == loaded.c.value
                 saved == Exec(loaded.s,
                               SaveCall(view.date, Append(current.tasks, h),
                                        Range(current.completed), FALSE), 0)
             IN  /\ habits' = saved.s.habits
                 /\ user_habits' = saved.s.user_habits
                 /\ txn' = saved.s.txn
                 /\ ret' = saved.c
                 /\ pre' = [habits |-> loaded.s.habits,
                            user_habits |-> loaded.s.user_habits,
                            threw |-> FALSE]
    /\ view' = [Event(view, "none") EXCEPT !.added = view.date]
    /\ Rest

\* router.back(): the view has focus again and its focus effect hydrates
Back ==
    /\ view.screen = "customHabit"
    /\ Room(view.loads, 1)
    /\ view' = [Event(view, "none") EXCEPT
                  !.screen = "home",
                  !.loads = AddLoad(view.loads, Hydrate(view.date, TRUE))]
    /\ Quiet
    /\ Rest

\* hydrate: await loadHabitSelection(selectedDateKey); if (!isActive) return
HydrateLoad ==
    \E l \in BagToSet(view.loads) :
        /\ l.pc = "load"
        /\ LET loaded == Exec(Store(habits, user_habits, txn), LoadCall(l.date), 0)
               selection == loaded.c.value
           IN  /\ habits' = loaded.s.habits
               /\ user_habits' = loaded.s.user_habits
               /\ txn' = loaded.s.txn
               /\ view' = [Event(view, "none") EXCEPT !.loads =
                             IF l.active
                             THEN AddLoad(DropLoad(view.loads, l),
                                          [l EXCEPT !.pc = "apply",
                                                    !.tasks = selection.tasks,
                                                    !.completed =
                                                       Range(selection.completed)])
                             ELSE DropLoad(view.loads, l)]
        /\ ret' = Idle
        /\ pre' = NoPre
        /\ Rest

\* hydrate: applySelection(selection), then up to await getHabitStreaks, or
\* to its end when there are no tasks
HydrateApply ==
    \E l \in BagToSet(view.loads) :
        /\ l.pc = "apply"
        /\ LET a == [applySelection(Event(view, "none"), l.tasks, l.completed)
                       EXCEPT !.shown = l.date, !.unread = l.unread]
               rest == DropLoad(view.loads, l)
           IN  view' =
                 IF l.tasks = <<>>
                 THEN PersistEffect([a EXCEPT !.hydrated = l.date,
                                              !.loads = rest])
                 ELSE [PersistEffect(a) EXCEPT !.loads =
                         AddLoad(rest, [l EXCEPT !.pc = "streaks",
                                                 !.tasks = <<>>,
                                                 !.completed = {},
                                                 !.unread = <<>>])]
        /\ Quiet
        /\ Rest

\* hydrate: hydratedDateRef.current = selectedDateKey, active or not
HydrateStreaks ==
    \E l \in BagToSet(view.loads) :
        /\ l.pc = "streaks"
        /\ view' = [Event(view, "none") EXCEPT
                      !.hydrated = l.date,
                      !.loads = DropLoad(view.loads, l)]
        /\ Quiet
        /\ Rest

ToggleHabit ==
    /\ view.screen = "home"
    /\ \E habitId \in Range(view.tasks) :
          LET next == IF habitId \in view.completed
                      THEN view.completed \ {habitId}
                      ELSE view.completed \cup {habitId}
          IN  /\ Perform(ViewSave(view.date, view.tasks, next), 0)
              /\ view' = PersistEffect([Event(view, "toggle") EXCEPT
                                          !.completed = next,
                                          !.source = Carried(view)])
    /\ Rest

HandleRemoveHabit ==
    /\ view.screen = "home"
    /\ \E habitId \in Range(view.tasks) :
          LET Other(id) == id # habitId
              next == SelectSeq(view.tasks, Other)
          IN  /\ Perform(ViewSave(view.date, next, view.completed \ {habitId}), 0)
              /\ view' = PersistEffect([Event(view, "remove") EXCEPT
                                          !.tasks = next,
                                          !.source = Carried(view),
                                          !.added = IF habitId \in CustomHabits
                                                    THEN NoDate ELSE @])
    /\ Rest

\* the timer's callback: persistSelection(storedTaskIds) of the render that
\* armed it
TimerFires ==
    \E i \in 1..Len(view.timers) :
        LET t == view.timers[i]
            uniqueTasks == Dedupe(t.tasks)
            Others(j) == IF j < i THEN view.timers[j] ELSE view.timers[j + 1]
        IN  /\ Perform(ViewSave(t.date, uniqueTasks,
                                t.completed \cap Range(uniqueTasks)), 0)
            /\ view' = [Event(view, "persist") EXCEPT
                          !.source = Carried(t),
                          !.timers = [j \in 1..(Len(view.timers) - 1) |-> Others(j)],
                          !.refLive = IF i = Len(view.timers) THEN FALSE ELSE @]
    /\ Rest

\* hydrate: a statement of loadHabitSelection throws; its catch returns the
\* empty selection
HydrateLoadFails ==
    \E l \in BagToSet(view.loads), k \in 1..MaxFailAt :
        /\ l.pc = "load"
        /\ LET loaded == Exec(Store(habits, user_habits, txn), LoadCall(l.date), k)
               selection == loaded.c.value
           IN  /\ loaded.k <= 0
               /\ habits' = loaded.s.habits
               /\ user_habits' = loaded.s.user_habits
               /\ txn' = loaded.s.txn
               /\ view' = [Event(view, "none") EXCEPT !.loads =
                             IF l.active
                             THEN AddLoad(DropLoad(view.loads, l),
                                          [l EXCEPT !.pc = "apply",
                                                    !.tasks = selection.tasks,
                                                    !.completed =
                                                       Range(selection.completed),
                                                    !.unread = user_habits[l.date]])
                             ELSE DropLoad(view.loads, l)]
        /\ ret' = Idle
        /\ pre' = NoPre
        /\ Rest

NextView ==
    \/ HandleContinue
    \/ Mount
    \/ Unmount
    \/ SelectDate
    \/ HandleAddPress
    \/ Back
    \/ HydrateLoad
    \/ HydrateApply
    \/ HydrateStreaks
    \/ ToggleHabit
    \/ HandleRemoveHabit
    \/ TimerFires

SpecView == Init /\ [][NextView]_vars

\* SpecViewFail: the day view when reads of the store may fail
NextViewFail == NextView \/ HydrateLoadFails

SpecViewFail == Init /\ [][NextViewFail]_vars

\* SpecCustom: the view is on the first date, which onboarding saved and
\* the view has loaded, and the custom habit screen saves a new habit into
\* that date
InitCustom ==
    /\ habits = BuiltinHabits
    /\ user_habits = [EmptyTable(DateKeys) EXCEPT ![1] = <<Row("h1", FALSE)>>]
    /\ txn = NoTxn
    /\ calls = [p \in Slots |-> Idle]
    /\ ret = Idle
    /\ pre = NoPre
    /\ conn = Closed
    /\ clients = [p \in Callers |-> NotCalling]
    /\ view = [Fresh(1) EXCEPT !.tasks = <<"h1">>, !.hydrated = 1, !.shown = 1]
    /\ storage = NoStorage

NextCustom ==
    \/ HandleAddPress
    \/ HandleSave
    \/ Back
    \/ HydrateLoad
    \/ HydrateApply
    \/ HydrateStreaks
    \/ ToggleHabit
    \/ HandleRemoveHabit
    \/ TimerFires

SpecCustom == InitCustom /\ [][NextCustom]_vars

\* SpecLive: onboarding saved a habit for the first date and on; the view
\* stays mounted on the last date, which it has loaded; the user toggles,
\* removes, and leaves for the custom habit screen and comes back.  A timer
\* that is pending fires and a hydrate that is awaiting resumes
InitLive ==
    /\ habits = BuiltinHabits
    /\ user_habits = [d \in DateKeys |-> <<Row("h1", FALSE)>>]
    /\ txn = NoTxn
    /\ calls = [p \in Slots |-> Idle]
    /\ ret = Idle
    /\ pre = NoPre
    /\ conn = Closed
    /\ clients = [p \in Callers |-> NotCalling]
    /\ view = [Fresh(MaxDate) EXCEPT !.tasks = <<"h1">>, !.hydrated = MaxDate,
                                     !.shown = MaxDate]
    /\ storage = NoStorage

NextLive ==
    \/ HandleAddPress
    \/ Back
    \/ HydrateLoad
    \/ HydrateApply
    \/ HydrateStreaks
    \/ ToggleHabit
    \/ HandleRemoveHabit
    \/ TimerFires

SpecLive ==
    /\ InitLive
    /\ [][NextLive]_vars
    /\ WF_vars(TimerFires)
    /\ WF_vars(HydrateLoad)
    /\ WF_vars(HydrateApply)
    /\ WF_vars(HydrateStreaks)

----------------------------------------------------------------------------
(* Properties *)

NoDuplicates(q) == \A i, j \in 1..Len(q) : i # j => q[i] # q[j]

\* the rows a selection asks for: its distinct tasks in order, each flagged
\* by membership in `completed`
SelectionRows(tasks, completed) ==
    LET u == Dedupe(tasks) IN [k \in 1..Len(u) |-> Row(u[k], u[k] \in completed)]

Current == Store(habits, user_habits, txn)

\* what an awaited call returns on the current store
Outcome(frame) == Exec(Current, frame, 0).c.value

\* C1: when a statement of saveHabitSelection(d, s) throws, the rows of d
\* are the rows from before the call or the rows of s, never a mixture.
C1_FailedSaveLeavesOldOrNew ==
    (ret.op = "save" /\ ret.status = "error") =>
        \/ user_habits[ret.date] = pre.user_habits[ret.date]
        \/ user_habits[ret.date] = SelectionRows(ret.tasks, ret.completed)

\* C2: two writes to one date triggered as s1 then s2: once both have
\* completed the date holds s2, whatever the interleaving.
C2_LaterWriteWins ==
    (/\ calls[1].op = "save"
     /\ calls[2].op = "save"
     /\ calls[1].status = "ok"
     /\ calls[2].status = "ok"
     /\ calls[1].date = calls[2].date) =>
        user_habits[calls[2].date] =
            SelectionRows(calls[2].tasks, calls[2].completed)

WellFormed(v) ==
    NoDuplicates(v.tasks) /\ Range(v.completed) \subseteq Range(v.tasks)

\* C3: after any sequence of store operations no date stores two rows for
\* one habit, and the Selection that loadHabitSelection returns for a date
\* has completed within tasks and no duplicate task.
C3_SelectionsWellFormed ==
    /\ \A d \in DateKeys : NoDuplicates(RowHabits(user_habits[d]))
    /\ ret.op = "load" => WellFormed(ret.value)

C3_Witness ==
    /\ ret.op = "save"
    /\ ~NoDuplicates(ret.tasks)
    /\ ~(ret.completed \subseteq Range(ret.tasks))
    /\ user_habits[ret.date] # <<>>
    /\ \E d \in DateKeys \ {ret.date} : user_habits[d] # <<>>

\* C4: saveHabitSelection without propagateToFuture leaves the rows of
\* every other date as they were.
C4_SaveTouchesOnlyItsDate ==
    (ret.op = "save" /\ ~ret.propagate) =>
        \A d \in DateKeys \ {ret.date} : user_habits[d] = pre.user_habits[d]

C4_Witness ==
    /\ ret.op = "save"
    /\ ~ret.propagate
    /\ user_habits[ret.date] # pre.user_habits[ret.date]
    /\ \E d \in DateKeys :
          /\ d > ret.date
          /\ user_habits[d] # <<>>
          /\ RowHabits(user_habits[d]) # RowHabits(user_habits[ret.date])
          /\ CompletedOf(user_habits[d]) # <<>>

\* C5: after saveHabitSelection(d, s, propagateToFuture) every later date
\* that had rows holds the tasks of s, all uncompleted; later dates without
\* rows and earlier dates are unchanged.
C5_PropagationReplacesEveryLaterDate ==
    (ret.op = "save" /\ ret.propagate /\ ret.status = "ok") =>
        \A d \in DOMAIN user_habits :
            /\ (d > ret.date /\ pre.user_habits[d] # <<>>) =>
                   user_habits[d] = SelectionRows(ret.tasks, {})
            /\ (d > ret.date /\ pre.user_habits[d] = <<>>) =>
                   user_habits[d] = <<>>
            /\ d < ret.date => user_habits[d] = pre.user_habits[d]

NearestEarlierTasks(tbl, d) ==
    LET earlier == {e \in DOMAIN tbl : e < d /\ tbl[e] # <<>>}
    IN  IF earlier = {} THEN <<>>
        ELSE RowHabits(tbl[CHOOSE m \in earlier : \A e \in earlier : e <= m])

\* C6: the suggestion for d is the task list, in stored order, of the
\* greatest date before d that has rows, and empty when there is none.
C6_SuggestNearestEarlier ==
    ret.op = "suggest" => ret.value.tasks = NearestEarlierTasks(user_habits, ret.date)

C6_Witness ==
    /\ ret.op = "suggest"
    /\ ret.date = 2
    /\ Len(user_habits[1]) = 2
    /\ CompletedOf(user_habits[1]) # <<>>
    /\ user_habits[2] # <<>>
    /\ RowHabits(user_habits[2]) # RowHabits(user_habits[1])
    /\ ret.value.tasks = RowHabits(user_habits[1])

\* the greatest day in lo..hi on which h has no completed row, 0 if none
RECURSIVE LatestGap(_, _, _, _)
LatestGap(tbl, h, lo, hi) ==
    IF lo > hi THEN 0
    ELSE IF lo = hi THEN (IF IsCompletedOn(tbl, h, lo) THEN 0 ELSE lo)
    ELSE LET mid == (lo + hi) \div 2
             upper == LatestGap(tbl, h, mid + 1, hi)
         IN  IF upper # 0 THEN upper ELSE LatestGap(tbl, h, lo, mid)

\* the length of the unbroken run of completed days that ends on a
RunLength(tbl, h, a) == a - LatestGap(tbl, h, 1, a)

\* C7 as stated: the streak as of a is the length of the unbroken run of
\* completed days ending on a.
C7_StreakIsRunLength ==
    ret.op = "streak" =>
        ret.value.streak = RunLength(user_habits, ret.habit, ret.date)

\* C7 amended: the streak as of a is that run length, capped at the 100
\* most recent completions the query reads.
C7_StreakIsRunLengthCapped ==
    ret.op = "streak" =>
        ret.value.streak =
            Min(RunLength(user_habits, ret.habit, ret.date), StreakRowLimit)

C7_Witness ==
    /\ ret.op = "streak"
    /\ ret.date = 5
    /\ \A d \in {1, 2, 3, 5} : IsCompletedOn(user_habits, ret.habit, d)
    /\ ~IsCompletedOn(user_habits, ret.habit, 4)
    /\ ret.value.streak = 1

\* the store without the rows of dates after a
UpTo(tbl, a) == [d \in DOMAIN tbl |-> IF d <= a THEN tbl[d] ELSE <<>>]

StreakOn(tbl, h, a, tz) ==
    Exec(Store(habits, tbl, txn), StreakCall(h, a, tz), 0).c.value.streak

StreaksOn(tbl, ids, a, tz) ==
    Exec(Store(habits, tbl, txn), StreaksCall(ids, a, tz), 0).c.value.streaks

\* C8: the streak as of a is 0 when h has no completed row on a, and rows
\* of dates after a do not change it (single and batched calculation).
C8_StreakEndsOnAsOfDate ==
    /\ ret.op = "streak" =>
          /\ ~IsCompletedOn(user_habits, ret.habit, ret.date) =>
                 ret.value.streak = 0
          /\ ret.value.streak =
                 StreakOn(UpTo(user_habits, ret.date), ret.habit, ret.date, ret.tz)
    /\ ret.op = "streaks" =>
          /\ \A h \in Range(ret.tasks) :
                 ~IsCompletedOn(user_habits, h, ret.date) =>
                     ret.value.streaks[h] = 0
          /\ ret.value.streaks =
                 StreaksOn(UpTo(user_habits, ret.date), ret.tasks, ret.date, ret.tz)

C8_Witness ==
    /\ ret.op = "streak"
    /\ ret.date = 1
    /\ IsCompletedOn(user_habits, ret.habit, 1)
    /\ IsCompletedOn(user_habits, ret.habit, 2)
    /\ ret.value.streak = 1

\* C9: the batched getHabitStreaks gives every id the value that
\* calculateHabitStreak gives on the same store.
C9_BatchEqualsSingle ==
    ret.op = "streaks" =>
        \A h \in Range(ret.tasks) :
            ret.value.streaks[h] = StreakOn(user_habits, h, ret.date, ret.tz)

\* C10: after deleteCustomHabit(h) the catalog has no h, no row references
\* h, loadAllHabitSelections lists h nowhere, and everything else is as it
\* was.
C10_DeleteCascades ==
    ret.op = "delete" =>
        /\ ret.habit \notin habits
        /\ \A d \in DateKeys : ~HasRow(user_habits, ret.habit, d)
        /\ LET all == Outcome(ReadAllCall).all
           IN  \A d \in DOMAIN all : ret.habit \notin Range(all[d].tasks)
        /\ habits = pre.habits \ {ret.habit}
        /\ \A d \in DateKeys :
              user_habits[d] = WithoutHabit(pre.user_habits[d], ret.habit)

C10_Witness ==
    /\ ret.op = "delete"
    /\ ret.habit \in pre.habits
    /\ \E d \in DateKeys : HasRow(pre.user_habits, ret.habit, d)
    /\ \E d \in DateKeys, h \in Habits \ {ret.habit} : HasRow(user_habits, h, d)

\* C11: every habit id that a stored row references has a definition in
\* the catalog.
C11_NoDanglingReference ==
    \A d \in DateKeys : Range(RowHabits(user_habits[d])) \subseteq habits

\* C12: no date ever holds two rows for one habit, whatever the
\* interleaving of the statements of saves, suggestion materialization,
\* future propagation and addHabitToFutureSelections.
C12_OneRowPerHabitAndDate ==
    \A d \in DateKeys, h \in Habits :
        Cardinality({k \in 1..Len(user_habits[d]) :
                        user_habits[d][k].habit_id = h}) <= 1

\* two saves of one date ran interleaved and the later INSERT OR REPLACE of
\* the first save found the row of the second and replaced it
C12_Witness ==
    /\ calls[1].op = "save" /\ calls[1].status = "ok"
    /\ calls[2].op = "save" /\ calls[2].status = "ok"
    /\ calls[1].date = calls[2].date
    /\ calls[1].tasks = <<"h1">>
    /\ calls[2].tasks = <<"h1", "custom_1">>
    /\ RowHabits(user_habits[calls[1].date]) = <<"custom_1", "h1">>

\* C15 as stated: openDatabaseAsync is started once only and every caller
\* that got an answer got the handle.
C15_OpenedExactlyOnce ==
    /\ conn.opens <= 1
    /\ \A p \in Callers : clients[p].status # "error"

\* C15 amended: at most one open is in progress at a time and none starts
\* once the store is open (every open but the current or successful one
\* has failed), and every caller that holds a handle holds the handle of
\* the one open that succeeded.
C15_OneOpenAtATime ==
    /\ conn.opens = conn.failures +
           (IF conn.promise = "pending" \/ conn.db # NoHandle THEN 1 ELSE 0)
    /\ conn.db # NoHandle => conn.db = conn.opens
    /\ \A p \in Callers :
          clients[p].status = "handle" => clients[p].handle = conn.db

\* one caller started the open, a second joined it while it was pending,
\* a third called once the store was open
C15_Witness ==
    /\ conn.opens = 1
    /\ \E p, q, r \in Callers :
          /\ clients[p].status = "handle" /\ clients[p].how = "started"
          /\ clients[q].status = "handle" /\ clients[q].how = "joined"
          /\ clients[r].status = "handle" /\ clients[r].how = "cached"

\* whether reading date d of the table leaves rows for d in the store
LeavesEntries(tbl, d) ==
    Exec(Store(habits, tbl, NoTxn), LoadCall(d), 0).s.user_habits[d] # <<>>

C18_LoadLeavesStoreUnchanged ==
    ret.op = "load" => (user_habits = pre.user_habits /\ habits = pre.habits)

\* C19: a call in which a store statement threw ends with an error for its
\* caller.
C19_FailureReachesCaller ==
    pre.threw => ret.status = "error"

\* C13: the write the debounce timer issues carries the task list and the
\* completed set the view holds when it fires, for the selected date, and
\* no other timer is left pending for the changes it stands for.
C13_DebouncedWriteIsLatest ==
    view.last = "persist" =>
        /\ ret.op = "save"
        /\ ret.date = view.date
        /\ ret.tasks = view.tasks
        /\ ret.completed = view.completed \cap Range(view.tasks)
        /\ view.timers = <<>>

C13_Witness ==
    /\ view.last = "persist"
    /\ view.edits >= 2
    /\ ret.tasks # <<>>
    /\ ret.completed # {}

\* C14: at most one timer is pending, it stands for the state and the date
\* the view has now, none is pending once the view is unmounted, and a
\* date change or unmount leaves none pending.
C14_OnePendingPersistOfCurrentState ==
    /\ Len(view.timers) <= 1
    /\ \A i \in DOMAIN view.timers : view.timers[i] = Payload(view)
    /\ view.screen = "away" => view.timers = <<>>
    /\ view.last = "cancel" => view.timers = <<>>

C14_Witness ==
    /\ view.last = "cancel"
    /\ view.screen = "home"
    /\ view.tasks # <<>>
    /\ view.timers = <<>>

\* C16: once the custom habit screen has saved a new habit into a date and
\* the user is back on the day view, with no timer pending and no hydrate
\* in flight, the date still has the habit's row (unless the user removed
\* the habit).
C16_NewHabitStaysSaved ==
    (/\ view.added # NoDate
     /\ view.screen = "home"
     /\ view.timers = <<>>
     /\ view.loads = EmptyBag) =>
        \A h \in CustomHabits \cap habits : HasRow(user_habits, h, view.added)

----------------------------------------------------------------------------
(* SpecRace: the calls of SpecConc on a store that has rows: the built-in  *)
(* habit on the first date, the custom habit, completed, on the second     *)

RaceRows ==
    [EmptyTable(DateKeys) EXCEPT ![1] = <<Row("h1", FALSE)>>,
                                 ![2] = <<Row("custom_1", TRUE)>>]

InitRace ==
    /\ habits = Habits
    /\ user_habits = RaceRows
    /\ txn = NoTxn
    /\ calls = [p \in Slots |-> Idle]
    /\ ret = Idle
    /\ pre = NoPre
    /\ conn = Closed
    /\ clients = [p \in Callers |-> NotCalling]
    /\ view = NoView
    /\ storage = NoStorage

NextRace == \E p \in Slots : Trigger(p) \/ Statement(p)

SpecRace == InitRace /\ [][NextRace]_vars

----------------------------------------------------------------------------
(* SpecToggle: toggleHabit pressed once or twice on the last date, shown   *)
(* with both habits uncompleted; every earlier date has both completed.    *)
(* Each toggle is its save, not awaited, and then the streak read of its   *)
(* .then callback.                                                         *)

ToggleTasks == <<"h1", "custom_1">>

ToggleRows ==
    [d \in DateKeys |-> SelectionRows(ToggleTasks,
                                      IF d < MaxDate THEN Habits ELSE {})]

InitToggle ==
    /\ habits = Habits
    /\ user_habits = ToggleRows
    /\ txn = NoTxn
    /\ calls = [p \in Slots |-> Idle]
    /\ ret = Idle
    /\ pre = NoPre
    /\ conn = Closed
    /\ clients = [p \in Callers |-> NotCalling]
    /\ view = NoView
    /\ storage = NoStorage

\* setCompletedIds((prev) => ...): `next` from the state the toggle before
\* it left, then saveHabitSelection(selectedDateKey, ...) without await
TogglePressed(p) ==
    /\ calls[p].status = "idle"
    /\ p = 2 => calls[1].status # "idle"
    /\ \E habitId \in Habits, tz \in TzOffsets :
          LET prev == IF p = 1 THEN {} ELSE calls[1].completed
              next == IF habitId \in prev THEN prev \ {habitId}
                      ELSE prev \cup {habitId}
          IN  /\ p = 2 => tz = calls[1].tz
              /\ calls' = [calls EXCEPT ![p] =
                             [ViewSave(MaxDate, ToggleTasks, next) EXCEPT
                                !.habit = habitId, !.tz = tz]]
    /\ UNCHANGED <<habits, user_habits, txn, ret, pre, app>>

\* .then(async () => { ... getHabitStreaks(selectionRef.current.tasks,
\* selectedDateKey) }): the frame keeps the toggle's habit and `next`
ToggleThen(p) ==
    /\ calls[p].op = "save"
    /\ calls[p].status = "ok"
    /\ calls' = [calls EXCEPT ![p] =
                   [StreaksCall(calls[p].tasks, calls[p].date, calls[p].tz)
                      EXCEPT !.habit = calls[p].habit,
                             !.completed = calls[p].completed]]
    /\ UNCHANGED <<habits, user_habits, txn, ret, pre, app>>

NextToggle == \E p \in Slots : TogglePressed(p) \/ Statement(p) \/ ToggleThen(p)

SpecToggle == InitToggle /\ [][NextToggle]_vars

----------------------------------------------------------------------------
(* SpecSeed: the catalog of a new installation, seeded at every start *)

InitSeed ==
    /\ habits = {}
    /\ user_habits = EmptyTable(DateKeys)
    /\ txn = NoTxn
    /\ calls = [p \in Slots |-> Idle]
    /\ ret = Idle
    /\ pre = NoPre
    /\ conn = Closed
    /\ clients = [p \in Callers |-> NotCalling]
    /\ view = NoView
    /\ storage = NoStorage

InsertHabitsFromCategories ==
    /\ Ready
    /\ Call(SeedCall, 0)

NextSeed ==
    \/ InsertHabitsFromCategories
    \/ CreateCustomHabit
    \/ SaveHabitSelection
    \/ ToggleHabitCompletion
    \/ DeleteCustomHabit
    \/ Returned

SpecSeed == InitSeed /\ [][NextSeed]_vars

----------------------------------------------------------------------------
(* SpecMigrate: starts of the app on an installation with legacy           *)
(* selections in AsyncStorage                                               *)

MaxStarts == 2

LegacySelections ==
    {[tasks |-> <<>>, completed |-> {}],
     [tasks |-> <<"h1">>, completed |-> {"h1"}]}

\* the `dates` map under STORAGE_KEY; no key at all when nothing was stored
LegacyStores == UNION {[D -> LegacySelections] : D \in SUBSET DateKeys}

\* for (const [dateKey, selection] of Object.entries(selections)): a date
\* in `failing` is one whose saveHabitSelection throws on its first
\* statement, which the loop catches and logs
RECURSIVE MigrateFrom(_, _, _, _)
MigrateFrom(s, selections, failing, d) ==
    IF d > MaxDate THEN s
    ELSE IF d \notin DOMAIN selections \/ selections[d].tasks = <<>>
         THEN MigrateFrom(s, selections, failing, d + 1)
    ELSE LET save == SaveCall(d, selections[d].tasks, selections[d].completed,
                              FALSE)
         IN  MigrateFrom(Exec(s, save, IF d \in failing THEN 1 ELSE 0).s,
                         selections, failing, d + 1)

\* failSet: AsyncStorage.setItem(MIGRATION_FLAG_KEY, 'true') rejects
migrateToDatabase(s, st, failing, failSet) ==
    IF st.flag THEN [s |-> s, st |-> [st EXCEPT !.last = "skipped"], status |-> "ok"]
    ELSE LET seeded == Exec(s, SeedCall, 0).s
             wrote == \E d \in DOMAIN st.legacy \ failing :
                         st.legacy[d].tasks # <<>>
         IN  [s |-> MigrateFrom(seeded, st.legacy, failing, 1),
              st |-> [st EXCEPT !.flag = ~failSet,
                                !.last = IF wrote THEN "migrated" ELSE "nothing",
                                !.writes = IF wrote THEN @ + 1 ELSE @],
              status |-> IF failSet THEN "error" ELSE "ok"]

MigrateCall == Frame("migrate", "done", 0, "", <<>>, {}, FALSE, 0)

InitMigrate ==
    /\ habits = {}
    /\ user_habits = EmptyTable(DateKeys)
    /\ txn = NoTxn
    /\ calls = [p \in Slots |-> Idle]
    /\ ret = Idle
    /\ pre = NoPre
    /\ conn = Closed
    /\ clients = [p \in Callers |-> NotCalling]
    /\ view = NoView
    /\ \E legacy \in LegacyStores : storage = [NoStorage EXCEPT !.legacy = legacy]

\* RootLayout.initializeApp: insertHabitsFromCategories, migrateToDatabase
InitializeApp ==
    /\ Ready
    /\ storage.starts < MaxStarts
    /\ \E failing \in SUBSET DOMAIN storage.legacy, failSet \in BOOLEAN :
          LET seeded == Exec(Store(habits, user_habits, txn), SeedCall, 0).s
              r == migrateToDatabase(seeded, storage, failing, failSet)
          IN  /\ habits' = r.s.habits
              /\ user_habits' = r.s.user_habits
              /\ txn' = r.s.txn
              /\ storage' = [r.st EXCEPT !.starts = @ + 1]
              /\ ret' = [MigrateCall EXCEPT !.status = r.status]
              /\ pre' = [habits |-> habits, user_habits |-> user_habits,
                         threw |-> failSet /\ ~storage.flag]
    /\ UNCHANGED <<calls, conn, clients, view>>

NextMigrate ==
    \/ InitializeApp
    \/ SaveHabitSelection
    \/ ToggleHabitCompletion
    \/ Returned

SpecMigrate == InitMigrate /\ [][NextMigrate]_vars

\* C20: a write of the day view (toggle, swipe removal, debounce timer) is
\* a save for the selected date without propagation, and the rows of every
\* other date are as they were before it.
C20_ViewWritesOnlySelectedDate ==
    view.last \in {"toggle", "remove", "persist"} =>
        /\ ret.op = "save"
        /\ ~ret.propagate
        /\ ret.date = view.date
        /\ \A d \in DateKeys \ {view.date} :
              user_habits[d] = pre.user_habits[d]

C20_Witness ==
    /\ view.last = "toggle"
    /\ user_habits[view.date] # pre.user_habits[view.date]
    /\ \E d \in DateKeys \ {view.date} : user_habits[d] # <<>>

\* C25: createCustomHabit called with a name that is empty after trimming
\* ends with an error and leaves the catalog as it was.
C25_BlankNameRejected ==
    (ret.op = "create" /\ Trim(ret.name) = <<>>) =>
        (ret.status = "error" /\ habits = pre.habits)

\* C29: no call ends because an INSERT into user_habits was rejected by
\* UNIQUE(habit_id, date).
C29_NoInsertRejected ==
    /\ ~ret.rejected
    /\ \A p \in Slots : ~calls[p].rejected

C22_ReadReturnsPersisted ==
    (ret.op = "load" /\ pre.user_habits[ret.date] # <<>>) =>
        LET rows == pre.user_habits[ret.date]
            flagged == {rows[k].habit_id : k \in {j \in 1..Len(rows) : rows[j].completed}}
        IN  /\ ret.status = "ok"
            /\ ret.value.tasks = [k \in 1..Len(rows) |-> rows[k].habit_id]
            /\ Range(ret.value.completed) = flagged
            /\ Len(ret.value.completed) = Cardinality(flagged)
            /\ user_habits = pre.user_habits

C22_Witness ==
    /\ ret.op = "load"
    /\ ret.date > 1
    /\ pre.user_habits[ret.date] # <<>>
    /\ \A k \in 1..Len(pre.user_habits[ret.date]) :
          ~pre.user_habits[ret.date][k].completed
    /\ pre.user_habits[ret.date - 1] # <<>>
    /\ RowHabits(pre.user_habits[ret.date - 1]) # RowHabits(pre.user_habits[ret.date])

\* C23: a read of a date without rows returns no completed id, whatever
\* the flags of the date the tasks were taken from, and the rows it writes
\* for the date are all uncompleted.
C23_SuggestionStartsUnfinished ==
    (ret.op = "load" /\ pre.user_habits[ret.date] = <<>>) =>
        /\ ret.value.completed = <<>>
        /\ \A k \in 1..Len(user_habits[ret.date]) :
              ~user_habits[ret.date][k].completed

C23_Witness ==
    /\ ret.op = "load"
    /\ ret.date > 1
    /\ pre.user_habits[ret.date] = <<>>
    /\ ret.value.tasks # <<>>
    /\ user_habits[ret.date] # <<>>
    /\ \E k \in 1..Len(pre.user_habits[ret.date - 1]) :
          pre.user_habits[ret.date - 1][k].completed

\* C24: loadAllHabitSelections returns an entry for exactly the dates that
\* have rows, and the tasks and completed ids of each entry are those a read
\* of that date returns.
C24_ReadAllMatchesReads ==
    ret.op = "readAll" =>
        /\ ret.status = "ok"
        /\ DOMAIN ret.value.all = {d \in DateKeys : pre.user_habits[d] # <<>>}
        /\ \A d \in DOMAIN ret.value.all :
              LET one == Exec(Store(pre.habits, pre.user_habits, txn),
                              LoadCall(d), 0).c.value
              IN  /\ ret.value.all[d].tasks = one.tasks
                  /\ ret.value.all[d].completed = one.completed
                  /\ ret.value.all[d].categories = one.categories

C24_Witness ==
    /\ ret.op = "readAll"
    /\ DOMAIN ret.value.all # {}
    /\ DOMAIN ret.value.all # DateKeys
    /\ \E d \in DOMAIN ret.value.all : ret.value.all[d].completed # <<>>

\* C26: toggleHabitCompletion leaves the habits of every date as they were
\* and changes no flag but that of the row (habit, date), which becomes the
\* value passed; without such a row the table is unchanged.
C26_ToggleFlipsOneFlag ==
    ret.op = "toggle" =>
        /\ habits = pre.habits
        /\ \A d \in DateKeys :
              /\ RowHabits(user_habits[d]) = RowHabits(pre.user_habits[d])
              /\ \A k \in 1..Len(user_habits[d]) :
                    IF d = ret.date /\ user_habits[d][k].habit_id = ret.habit
                    THEN user_habits[d][k].completed = (ret.habit \in ret.completed)
                    ELSE user_habits[d][k].completed = pre.user_habits[d][k].completed

C26_Witness ==
    /\ ret.op = "toggle"
    /\ user_habits # pre.user_habits
    /\ Len(user_habits[ret.date]) > 1
    /\ \E d \in DateKeys \ {ret.date} : HasRow(user_habits, ret.habit, d)

\* C27: after resetAllHabitProgress returns normally no date has a row, a
\* read of all selections is empty and every streak is 0; the catalog is as
\* before; after it throws, the rows of every date are as before.
C27_ResetClearsEntriesOnly ==
    ret.op = "reset" =>
        /\ habits = pre.habits
        /\ ret.status = "ok" =>
              /\ \A d \in DateKeys : user_habits[d] = <<>>
              /\ DOMAIN Exec(Store(habits, user_habits, txn),
                             ReadAllCall, 0).c.value.all = {}
              /\ \A h \in Habits, d \in DateKeys, tz \in TzOffsets :
                    StreakOn(user_habits, h, d, tz) = 0
        /\ ret.status = "error" => user_habits = pre.user_habits

C27_Witness ==
    /\ ret.op = "reset"
    /\ ret.status = "ok"
    /\ "custom_1" \in habits
    /\ \E d \in DateKeys, k \in 1..MaxLen :
          /\ k <= Len(pre.user_habits[d])
          /\ pre.user_habits[d][k].completed

C27_FailedWitness ==
    /\ ret.op = "reset"
    /\ ret.status = "error"
    /\ \E d \in DateKeys : user_habits[d] # <<>>

\* C28: insertHabitsFromCategories returns normally with the catalog being
\* the former one plus the built-in habits and every row as before, and a
\* second run of it changes nothing.
C28_SeedIdempotent ==
    ret.op = "seed" =>
        /\ ret.status = "ok"
        /\ habits = pre.habits \cup BuiltinHabits
        /\ user_habits = pre.user_habits
        /\ LET again == Exec(Store(habits, user_habits, txn), SeedCall, 0)
           IN  /\ again.c.status = "ok"
               /\ again.s.habits = habits
               /\ again.s.user_habits = user_habits

C28_Witness ==
    /\ ret.op = "seed"
    /\ BuiltinHabits \subseteq pre.habits
    /\ "custom_1" \in pre.habits
    /\ \E d \in DateKeys : HasRow(user_habits, "custom_1", d)

C28_FirstSeedWitness ==
    /\ ret.op = "seed"
    /\ pre.habits = {"custom_1"}
    /\ habits = {"custom_1"} \cup BuiltinHabits

\* C30: at most one call of migrateToDatabase writes legacy selections
\* into the store.
C30_MigrationWritesOnce == storage.writes <= 1

\* a start that finds the migration flag set leaves every row as it was
C30_FlaggedStartWritesNothing ==
    (ret.op = "migrate" /\ storage.last = "skipped") =>
        user_habits = pre.user_habits

\* a later start put legacy rows over rows changed since the first one
C30_Overwritten ==
    /\ ret.op = "migrate"
    /\ storage.writes = 2
    /\ \E d \in DOMAIN storage.legacy :
          /\ pre.user_habits[d] # <<>>
          /\ user_habits[d] # pre.user_habits[d]

\* C35: a read of the date of a successful save, made right after it,
\* returns the saved tasks without their duplicates and, as completed, the
\* saved completed ids that are among the tasks; the empty selection too.
C35_WriteThenRead ==
    (ret.op = "save" /\ ret.status = "ok") =>
        LET read == Exec(Store(habits, user_habits, txn), LoadCall(ret.date),
                         0).c.value
        IN  /\ read.tasks = Dedupe(ret.tasks)
            /\ Range(read.completed) = ret.completed \cap Range(ret.tasks)

\* the same for the saves of at least one task
C35_WriteThenReadSomeTask ==
    (ret.op = "save" /\ ret.status = "ok" /\ ret.tasks # <<>>) =>
        LET read == Exec(Store(habits, user_habits, txn), LoadCall(ret.date),
                         0).c.value
        IN  /\ read.tasks = Dedupe(ret.tasks)
            /\ Range(read.completed) = ret.completed \cap Range(ret.tasks)

\* C37: addHabitToFutureSelections(h, start) appends the row (h, not
\* completed) to every date after start that has rows and none for h, and
\* leaves the rows of every other date, and the other rows of those dates,
\* as they were.
C37_AddsToEveryLaterDate ==
    ret.op = "addFuture" =>
        \A d \in DOMAIN user_habits :
            IF /\ d > ret.date
               /\ pre.user_habits[d] # <<>>
               /\ ~HasRow(pre.user_habits, ret.habit, d)
            THEN user_habits[d] = Append(pre.user_habits[d], Row(ret.habit, FALSE))
            ELSE user_habits[d] = pre.user_habits[d]

\* C32: a read of a date that had rows, made while a save of at least one
\* task to that date is the only other call, returns the rows the date had
\* or the selection of the save.
C32_ReadSeesOldOrNew ==
    \A p \in Slots, q \in Slots :
        (/\ calls[p].op = "load" /\ calls[p].status = "ok"
         /\ calls[q].op = "save" /\ calls[q].tasks # <<>>
         /\ calls[q].date = calls[p].date
         /\ RaceRows[calls[p].date] # <<>>) =>
            LET old == RaceRows[calls[p].date]
                read == calls[p].value
            IN  \/ /\ read.tasks = RowHabits(old)
                   /\ read.completed = CompletedOf(old)
                \/ /\ read.tasks = Dedupe(calls[q].tasks)
                   /\ Range(read.completed) =
                          calls[q].completed \cap Range(calls[q].tasks)

\* the read and the save have both ended and the date holds the tasks of the
\* date before it next to, or in place of, the saved ones
C32_SuggestionOverWrite ==
    \E p \in Slots, q \in Slots :
        /\ calls[p].op = "load" /\ calls[p].status = "ok"
        /\ calls[q].op = "save" /\ calls[q].status = "ok"
        /\ calls[q].date = 2 /\ calls[p].date = 2
        /\ calls[q].tasks = <<"custom_1">>
        /\ HasRow(user_habits, "h1", 2)

C38_Answered ==
    /\ conn.promise # "pending" =>
          \A p \in Callers : clients[p].status # "waiting"
    /\ conn.db = NoHandle => conn.promise \in {"none", "pending"}
    /\ \A p \in Callers :
          /\ clients[p].status = "error" => conn.failures > 0
          /\ clients[p].status = "handle" =>
                /\ clients[p].handle = conn.db
                /\ clients[p].handle = conn.failures + 1

C38_StartsAfresh ==
    \A p \in Callers :
        (/\ clients[p].status = "idle"
         /\ clients'[p].status # "idle"
         /\ conn.db = NoHandle
         /\ conn.promise # "pending") =>
            /\ conn'.opens = conn.opens + 1
            /\ conn'.promise = "pending"
            /\ clients'[p] = Answer("waiting", NoHandle, "started")

\* C38: when openDatabaseAsync throws, every caller waiting on the attempt
\* gets the error and the attempt's promise is dropped, so that the next
\* call starts a new open; a caller that gets a handle gets the handle of
\* the one attempt that succeeded, made after every failed one.
C38_FailedOpenIsDiscarded == []C38_Answered /\ [][C38_StartsAfresh]_vars

C38_Witness ==
    /\ conn.failures = 1
    /\ conn.db = 2
    /\ \E p, q, r \in Callers :
          /\ clients[p].status = "error"
          /\ clients[q].status = "handle" /\ clients[q].how = "started"
          /\ clients[r].status = "handle" /\ clients[r].how = "cached"

\* completionDatesByHabit.get(h): the dates on which h is completed, oldest first
CompletionDates(tbl, h) ==
    LET latestFirst == CompletedDescending(tbl, h, 1, LastKey(tbl))
    IN  [k \in 1..Len(latestFirst) |-> latestFirst[Len(latestFirst) + 1 - k]]

\* C39: for the completion dates of the habit, calculateCurrentStreak gives
\* the value calculateHabitStreak gives as of the latest of them.
C39_ScreenStreakIsEngineStreak ==
    \A tz \in TzOffsets :
        LET dateKeys == CompletionDates(user_habits, StreakHabit)
        IN  dateKeys # <<>> =>
                calculateCurrentStreak(dateKeys, tz) =
                    StreakOn(user_habits, StreakHabit, dateKeys[Len(dateKeys)], tz)

\* calculateCurrentStreak gives the length of the run of completed days
\* that ends on the latest completion date
C39_ScreenStreakIsRunLength ==
    \A tz \in TzOffsets :
        LET dateKeys == CompletionDates(user_habits, StreakHabit)
        IN  dateKeys # <<>> =>
                calculateCurrentStreak(dateKeys, tz) =
                    RunLength(user_habits, StreakHabit, dateKeys[Len(dateKeys)])

\* the streak of the toggled habit on the store as the toggle's save
\* leaves it when nothing else writes
ToggledStreak(c) ==
    StreakOn([ToggleRows EXCEPT ![c.date] = SelectionRows(c.tasks, c.completed)],
             c.habit, c.date, c.tz)

\* C31: the streak read of a toggle gives the toggled habit the streak of
\* the store that holds the toggle's selection whole, whatever a toggle of
\* another habit is doing.
C31_StreakReadSeesToggle ==
    \A p \in Slots :
        (/\ calls[p].op = "streaks"
         /\ calls[p].status = "ok"
         /\ \A q \in Slots \ {p} : calls[q].habit # calls[p].habit) =>
            calls[p].value.streaks[calls[p].habit] = ToggledStreak(calls[p])

\* the same when no other toggle was pressed before the read ended
C31_LoneToggleSeesItself ==
    (/\ calls[1].op = "streaks"
     /\ calls[1].status = "ok"
     /\ calls[2].status = "idle") =>
        /\ calls[1].value.streaks[calls[1].habit] = ToggledStreak(calls[1])
        /\ calls[1].value.streaks[calls[1].habit] = MaxDate

\* C33: a write of the day view (toggle, swipe removal, debounce timer)
\* carries the task list of a state that was loaded for the date it writes.
C33_WritesCarryTasksOfTheirDate ==
    view.last \in {"toggle", "remove", "persist"} =>
        view.source.shown = ret.date

\* the same for the writes of the debounce timer alone
C33_TimerCarriesTasksOfItsDate ==
    view.last = "persist" => view.source.shown = ret.date

\* a toggle pressed before the load of the first date ended wrote the task
\* list shown for the second date into the first, which had no row
C33_ForeignTasksWritten ==
    /\ view.last = "toggle"
    /\ ret.date = 1
    /\ view.source.shown = 2
    /\ pre.user_habits[1] = <<>>
    /\ user_habits[1] # <<>>

\* C34: a write of the day view leaves on its date every row that a
\* failed load of that date did not return to the state the write carries.
C34_FailedReadKeepsRows ==
    (/\ view.last \in {"toggle", "remove", "persist"}
     /\ view.source.shown = ret.date) =>
        \A k \in 1..Len(view.source.unread) :
            \E j \in 1..Len(user_habits[ret.date]) :
                user_habits[ret.date][j] = view.source.unread[k]

\* the store holds for the view's date the view's task list and, of
\* completedIds, the ids of that list (handleRemoveHabit leaves the removed
\* id in completedIds; persistSelection filters it out)
Persisted ==
    /\ view.date \in DateKeys
    /\ RowHabits(user_habits[view.date]) = view.tasks
    /\ Range(CompletedOf(user_habits[view.date])) =
          view.completed \cap Range(view.tasks)

Edited == view.last \in {"toggle", "remove"}

OnHydratedDate == view.screen = "home" /\ view.hydrated = view.date

\* C36: when the user toggles and removes on hydrated dates only and, from
\* some time on, the view stays mounted on a hydrated date without a further
\* toggle or removal, then from some time on the store holds for that date
\* exactly the view's task list and completed set.
C36_EditsEventuallyPersisted ==
    ([](Edited => OnHydratedDate) /\ <>[](OnHydratedDate /\ ~Edited))
        => <>[]Persisted

\* nothing is pending
Settled == view.timers = <<>> /\ view.loads = EmptyBag

\* the view is on a hydrated date with nothing pending, and the store holds
\* for that date a habit the view's list has not
C36_SettledApart ==
    /\ OnHydratedDate
    /\ Settled
    /\ view.tasks = <<>>
    /\ user_habits[view.date] # <<>>

\* the debounce timer wrote, after a toggle, what the view holds
C36_TimerWroteCurrent ==
    /\ OnHydratedDate
    /\ view.last = "persist"
    /\ view.completed # {}
    /\ ret.date = view.date
    /\ Persisted

============================================================================
